---- MODULE Spec2Model ----
(***************************************************************************)
(* The graph execution engine of the workflow backend: execute_flow of     *)
(* api/v1/nodes.py with its router/combiner, the node registry, the run    *)
(* contract of the Query, Conditional and Response nodes, the deployments  *)
(* of api/v1/deployments.py and the summary tree of the SummaryNode.       *)
(*                                                                         *)
(* Python strings are sequences of one-character strings, so that strip,   *)
(* lower, startswith and the like are computed and not assumed.  Node ids  *)
(* and the names of inputs, outputs and parameters are never taken apart   *)
(* by the code and stay TLA+ strings.  A Python dict is a function from    *)
(* its keys to its values.                                                 *)
(***************************************************************************)
EXTENDS Integers, Sequences, FiniteSets, TLC

(***************************************************************************)
(* Bounds of the checked payload families.                                 *)
(***************************************************************************)
MaxNodes == 3
MaxEdges == 2

(***************************************************************************)
(* Text.                                                                   *)
(***************************************************************************)
Whitespace == {" ", "\n", "\t"}

UpperToLower ==
    ("A" :> "a") @@ ("B" :> "b") @@ ("C" :> "c") @@ ("D" :> "d") @@ ("E" :> "e") @@
    ("F" :> "f") @@ ("G" :> "g") @@ ("H" :> "h") @@ ("I" :> "i") @@ ("J" :> "j") @@
    ("K" :> "k") @@ ("L" :> "l") @@ ("M" :> "m") @@ ("N" :> "n") @@ ("O" :> "o") @@
    ("P" :> "p") @@ ("Q" :> "q") @@ ("R" :> "r") @@ ("S" :> "s") @@ ("T" :> "t") @@
    ("U" :> "u") @@ ("V" :> "v") @@ ("W" :> "w") @@ ("X" :> "x") @@ ("Y" :> "y") @@
    ("Z" :> "z")

\* str.lower()
lower(s) ==
    [i \in 1..Len(s) |-> IF s[i] \in DOMAIN UpperToLower THEN UpperToLower[s[i]] ELSE s[i]]

RECURSIVE lstrip(_)
lstrip(s) ==
    IF s # <<>> /\ Head(s) \in Whitespace THEN lstrip(Tail(s)) ELSE s

RECURSIVE rstrip(_)
rstrip(s) ==
    IF s # <<>> /\ s[Len(s)] \in Whitespace THEN rstrip(SubSeq(s, 1, Len(s) - 1)) ELSE s

\* str.strip()
strip(s) == rstrip(lstrip(s))

\* str.startswith(p)
startswith(s, p) == Len(p) <= Len(s) /\ SubSeq(s, 1, Len(p)) = p

\* str.endswith(p)
endswith(s, p) == Len(p) <= Len(s) /\ SubSeq(s, Len(s) - Len(p) + 1, Len(s)) = p

\* p in s
contains(s, p) ==
    \E i \in 0..(Len(s) - Len(p)) : SubSeq(s, i + 1, i + Len(p)) = p

\* str.replace(p, "") for a non-empty p: every occurrence, left to right
RECURSIVE remove_all(_, _)
remove_all(s, p) ==
    IF s = <<>> THEN <<>>
    ELSE IF startswith(s, p) THEN remove_all(SubSeq(s, Len(p) + 1, Len(s)), p)
    ELSE <<Head(s)>> \o remove_all(Tail(s), p)

QueryNodeName == <<"Q","u","e","r","y","N","o","d","e">>
ResponseNodeName == <<"R","e","s","p","o","n","s","e","N","o","d","e">>
ConditionalNodeName == <<"C","o","n","d","i","t","i","o","n","a","l","N","o","d","e">>
querynode == <<"q","u","e","r","y","n","o","d","e">>
responsenode == <<"r","e","s","p","o","n","s","e","n","o","d","e">>
conditionalnode == <<"c","o","n","d","i","t","i","o","n","a","l","n","o","d","e">>
languagemodelnode == <<"l","a","n","g","u","a","g","e","m","o","d","e","l","n","o","d","e">>
websearchnode == <<"w","e","b","s","e","a","r","c","h","n","o","d","e">>
knowledgebaseretrievalnode == <<"k","n","o","w","l","e","d","g","e","b","a","s","e","r","e","t","r","i","e","v","a","l","n","o","d","e">>
summarynode == <<"s","u","m","m","a","r","y","n","o","d","e">>
intentclassificationnode == <<"i","n","t","e","n","t","c","l","a","s","s","i","f","i","c","a","t","i","o","n","n","o","d","e">>
CombinedPrefix == <<"C","o","m","b","i","n","e","d"," ","i","n","p","u","t","s",":">>
NoResponseYet == <<"N","o"," ","r","e","s","p","o","n","s","e"," ","y","e","t">>

(***************************************************************************)
(* Python values: None, str, bool, int, list and dict, one record shape.   *)
(***************************************************************************)
EmptyDict == <<>>

NoneV == [t |-> "NoneType", s |-> <<>>, b |-> FALSE, n |-> 0, l |-> <<>>, d |-> EmptyDict]
Str(s) == [t |-> "str", s |-> s, b |-> FALSE, n |-> 0, l |-> <<>>, d |-> EmptyDict]
Bool(b) == [t |-> "bool", s |-> <<>>, b |-> b, n |-> 0, l |-> <<>>, d |-> EmptyDict]
IntV(n) == [t |-> "int", s |-> <<>>, b |-> FALSE, n |-> n, l |-> <<>>, d |-> EmptyDict]
List(l) == [t |-> "list", s |-> <<>>, b |-> FALSE, n |-> 0, l |-> l, d |-> EmptyDict]
Dict(d) == [t |-> "dict", s |-> <<>>, b |-> FALSE, n |-> 0, l |-> <<>>, d |-> d]

\* d[k] = v, as in dict.__setitem__
Put(d, k, v) == [x \in (DOMAIN d) \cup {k} |-> IF x = k THEN v ELSE d[x]]

\* dict.update
Update(d, e) == [x \in (DOMAIN d) \cup (DOMAIN e) |-> IF x \in DOMAIN e THEN e[x] ELSE d[x]]

\* the type name of a value, type(v).__name__, as text
TypeName(v) ==
    CASE v.t = "NoneType" -> <<"N","o","n","e","T","y","p","e">>
      [] v.t = "str" -> <<"s","t","r">>
      [] v.t = "bool" -> <<"b","o","o","l">>
      [] v.t = "int" -> <<"i","n","t">>
      [] v.t = "list" -> <<"l","i","s","t">>
      [] v.t = "dict" -> <<"d","i","c","t">>

\* candidate in (None, "", [], {}): the value of an inactive socket
IsInactiveValue(v) ==
    \/ v.t = "NoneType"
    \/ v.t = "str" /\ v.s = <<>>
    \/ v.t = "list" /\ v.l = <<>>
    \/ v.t = "dict" /\ DOMAIN v.d = {}

\* bool(v)
Truthy(v) ==
    CASE v.t = "NoneType" -> FALSE
      [] v.t = "str" -> v.s # <<>>
      [] v.t = "bool" -> v.b
      [] v.t = "int" -> v.n # 0
      [] v.t = "list" -> v.l # <<>>
      [] v.t = "dict" -> DOMAIN v.d # {}

\* str(v) for the values a ConditionalNode or ResponseNode is fed in the
\* checked payloads (text, booleans, None and the empty collections)
PyStr(v) ==
    CASE v.t = "str" -> v.s
      [] v.t = "bool" -> IF v.b THEN <<"T","r","u","e">> ELSE <<"F","a","l","s","e">>
      [] v.t = "NoneType" -> <<"N","o","n","e">>
      [] v.t = "list" /\ v.l = <<>> -> <<"[","]">>
      [] v.t = "dict" /\ DOMAIN v.d = {} -> <<"{","}">>

(***************************************************************************)
(* combine_multiple_inputs: the values of several edges on one input.      *)
(***************************************************************************)
\* the keys of a dict in one fixed order
RECURSIVE KeySeq(_)
KeySeq(K) ==
    IF K = {} THEN <<>>
    ELSE LET k == CHOOSE x \in K : TRUE IN <<k>> \o KeySeq(K \ {k})

\* "\n\n".join(values)
RECURSIVE JoinBlank(_)
JoinBlank(vs) ==
    IF Len(vs) = 1 THEN vs[1].s
    ELSE vs[1].s \o <<"\n", "\n">> \o JoinBlank(Tail(vs))

\* the last of the longest
LongestFirst_Last(vs) ==
    vs[CHOOSE i \in 1..Len(vs) :
          /\ \A j \in 1..Len(vs) : Len(vs[j].s) <= Len(vs[i].s)
          /\ \A j \in (i + 1)..Len(vs) : Len(vs[j].s) < Len(vs[i].s)]

\* max(values, key=len): the first of the longest
LongestFirst(vs) ==
    vs[CHOOSE i \in 1..Len(vs) :
          /\ \A j \in 1..Len(vs) : Len(vs[j].s) <= Len(vs[i].s)
          /\ \A j \in 1..(i - 1) : Len(vs[j].s) < Len(vs[i].s)]

\* one (key, value) of the i-th dict merged into combined_dict
MergeItem(acc, key, value, i) ==
    IF key \in DOMAIN acc
    THEN IF acc[key].t = "str" /\ value.t = "str"
         THEN Put(acc, key, Str(acc[key].s \o <<"\n">> \o value.s))
         ELSE Put(acc, key \o "_" \o ToString(i), value)
    ELSE Put(acc, key, value)

RECURSIVE MergeItems(_, _, _, _)
MergeItems(acc, d, keys, i) ==
    IF keys = <<>> THEN acc
    ELSE MergeItems(MergeItem(acc, Head(keys), d[Head(keys)], i), d, Tail(keys), i)

\* the dicts vs[j..] merged into acc; enumerate() counts from 0
RECURSIVE MergeDicts(_, _, _)
MergeDicts(acc, vs, j) ==
    IF j > Len(vs) THEN acc
    ELSE MergeDicts(MergeItems(acc, vs[j].d, KeySeq(DOMAIN vs[j].d), j - 1), vs, j + 1)

RECURSIVE ExtendAll(_)
ExtendAll(vs) ==
    IF vs = <<>> THEN <<>> ELSE Head(vs).l \o ExtendAll(Tail(vs))

NonEmptyValues(values) ==
    SelectSeq(values, LAMBDA v : v.t # "NoneType" /\ ~(v.t = "str" /\ v.s = <<>>))

\* combine_multiple_inputs without the test that every string has content
combine_multiple_inputs_AlwaysJoin(values) ==
    LET non_empty_values == NonEmptyValues(values)
        AllOf(tag) == \A i \in 1..Len(non_empty_values) : non_empty_values[i].t = tag
    IN  IF values = <<>> THEN NoneV
        ELSE IF Len(values) = 1 THEN values[1]
        ELSE IF non_empty_values = <<>> THEN NoneV
        ELSE IF Len(non_empty_values) = 1 THEN non_empty_values[1]
        ELSE IF AllOf("str")
             THEN Str(CombinedPrefix \o <<"\n">> \o JoinBlank(non_empty_values))
        ELSE IF AllOf("dict") THEN Dict(MergeDicts(EmptyDict, non_empty_values, 1))
        ELSE IF AllOf("list") THEN List(ExtendAll(non_empty_values))
        ELSE Dict(("combined_inputs" :> List(non_empty_values)) @@
                  ("input_count" :> IntV(Len(non_empty_values))) @@
                  ("input_types" :>
                      List([i \in 1..Len(non_empty_values) |->
                               Str(TypeName(non_empty_values[i]))])))

combine_multiple_inputs(values) ==
    LET non_empty_values == NonEmptyValues(values)
        AllOf(tag) == \A i \in 1..Len(non_empty_values) : non_empty_values[i].t = tag
    IN  IF values = <<>> THEN NoneV
        ELSE IF Len(values) = 1 THEN values[1]
        ELSE IF non_empty_values = <<>> THEN NoneV
        ELSE IF Len(non_empty_values) = 1 THEN non_empty_values[1]
        ELSE IF AllOf("str")
             THEN IF \A i \in 1..Len(non_empty_values) : Len(strip(non_empty_values[i].s)) > 0
                  THEN Str(CombinedPrefix \o <<"\n">> \o JoinBlank(non_empty_values))
                  ELSE LongestFirst(non_empty_values)
        ELSE IF AllOf("dict") THEN Dict(MergeDicts(EmptyDict, non_empty_values, 1))
        ELSE IF AllOf("list") THEN List(ExtendAll(non_empty_values))
        ELSE Dict(("combined_inputs" :> List(non_empty_values)) @@
                  ("input_count" :> IntV(Len(non_empty_values))) @@
                  ("input_types" :>
                      List([i \in 1..Len(non_empty_values) |->
                               Str(TypeName(non_empty_values[i]))])))

(***************************************************************************)
(* The input router of execute_flow.  An edge is a record                   *)
(* [from, output, to, input]; "" stands for a name the payload left out.   *)
(***************************************************************************)
\* an entry of errors: what failed, and the type name, the upstream node id or
\* the exception text that the message quotes
Err(kind, text, node, what) == [kind |-> kind, text |-> text, node |-> node, what |-> what]

\* errors[node_id] = f"Upstream node '{src_node}' has no results"
UpstreamError(src_node) == Err("Upstream node has no results", <<>>, src_node, "")

NoError == ""

\* the value of an edge without the test for an inactive socket
EdgeValue_NoInactiveTest(inc, src_payload) ==
    IF inc.output # ""
    THEN IF inc.output \in DOMAIN src_payload
         THEN <<src_payload[inc.output]>>
         ELSE <<>>
    ELSE IF Cardinality(DOMAIN src_payload) = 1
         THEN <<src_payload[CHOOSE k \in DOMAIN src_payload : TRUE]>>
         ELSE <<Dict(src_payload)>>

\* the value an edge carries, or nothing for an inactive or missing socket
EdgeValue(inc, src_payload) ==
    IF inc.output # ""
    THEN IF inc.output \in DOMAIN src_payload
         THEN IF IsInactiveValue(src_payload[inc.output])
              THEN <<>>
              ELSE <<src_payload[inc.output]>>
         ELSE <<>>
    ELSE IF Cardinality(DOMAIN src_payload) = 1
         THEN <<src_payload[CHOOSE k \in DOMAIN src_payload : TRUE]>>
         ELSE <<Dict(src_payload)>>

\* dst_input or src_output or "default"
InputKey(inc) ==
    IF inc.input # "" THEN inc.input
    ELSE IF inc.output # "" THEN inc.output
    ELSE "default"

\* the loop over incoming_list from its i-th edge on: the groups of values
\* per input key, and the upstream node without results that broke the loop,
\* if any
RECURSIVE RouteEdges(_, _, _, _)
RouteEdges(incoming_list, i, input_groups, results_) ==
    IF i > Len(incoming_list) THEN [groups |-> input_groups, err |-> NoError]
    ELSE LET inc == incoming_list[i] IN
         IF inc.from \notin DOMAIN results_
         THEN [groups |-> input_groups, err |-> inc.from]
         ELSE LET value == EdgeValue(inc, results_[inc.from])
                  key == InputKey(inc)
              IN  IF value = <<>>
                  THEN RouteEdges(incoming_list, i + 1, input_groups, results_)
                  ELSE RouteEdges(incoming_list, i + 1,
                         Put(input_groups, key,
                             IF key \in DOMAIN input_groups
                             THEN Append(input_groups[key], value[1])
                             ELSE <<value[1]>>),
                         results_)

\* built_inputs of a node: its external inputs, overwritten per input key by
\* the single routed value or by the combination of several
BuildInputs(ext, incoming_list, results_) ==
    LET routed == RouteEdges(incoming_list, 1, EmptyDict, results_)
        g == routed.groups
    IN  [inputs |-> Update(ext, [k \in DOMAIN g |->
                                   IF Len(g[k]) = 1 THEN g[k][1]
                                   ELSE combine_multiple_inputs(g[k])]),
         err |-> routed.err]

(***************************************************************************)
(* The node registry and the run contract of the nodes.                    *)
(***************************************************************************)
\* the fields of the NodeStyling dataclass
NodeStylingFields ==
    {"icon", "background_color", "border_color", "text_color", "custom_css", "subtitle",
     "icon_position", "shape", "width", "height", "html_template", "css_classes",
     "inline_styles"}

\* the keyword arguments each node class passes to NodeStyling in _define_styling
StylingKeywords(cls) ==
    IF cls = responsenode THEN NodeStylingFields \cup {"hide_outputs"}
    ELSE NodeStylingFields

VARIABLES
    registry,               \* node_registry._nodes: key -> node class
    call                    \* the last call of the registry or of a node, with its result

library == <<registry, call>>

VARIABLES
    workflows,              \* the workflows table: id -> [name, data]
    deployments,            \* the deployments table: id -> [name, workflow_id, data, is_active]
    deployment_logs         \* the deployment_logs table, oldest row first

database == <<workflows, deployments, deployment_logs>>

\* the tables init_db creates in a new database
init_db ==
    /\ workflows = <<>>
    /\ deployments = <<>>
    /\ deployment_logs = <<>>

\* the classes register_all_nodes registers, by their lower-cased names
RegisteredNodes ==
    {languagemodelnode, querynode, responsenode, websearchnode,
     knowledgebaseretrievalnode, summarynode, conditionalnode, intentclassificationnode}

\* BaseNode.__init__: the dataclass constructor rejects a keyword it does not
\* declare with a TypeError
ConstructorRaises(cls) == ~(StylingKeywords(cls) \subseteq NodeStylingFields)

\* create_node with self._nodes[key] for self._nodes.get(key): an unregistered
\* name raises
create_node_KeyError(name) ==
    LET key == lower(name) IN
    IF key \in DOMAIN registry
    THEN IF ConstructorRaises(registry[key])
         THEN [kind |-> "raise", cls |-> registry[key]]
         ELSE [kind |-> "instance", cls |-> registry[key]]
    ELSE [kind |-> "raise", cls |-> key]

\* NodeRegistry.create_node: an instance, None for an unregistered name, or the
\* exception of the constructor
create_node(name) ==
    LET key == lower(name) IN
    IF key \in DOMAIN registry
    THEN IF ConstructorRaises(registry[key])
         THEN [kind |-> "raise", cls |-> registry[key]]
         ELSE [kind |-> "instance", cls |-> registry[key]]
    ELSE [kind |-> "none", cls |-> key]

\* create_node_instance of execute_flow: a second try with the lower-cased name
create_node_instance(type_name) ==
    LET instance == create_node(type_name) IN
    IF instance.kind = "none" THEN create_node(lower(type_name)) ELSE instance

Declared(name, required) == [name |-> name, required |-> required]

\* _define_inputs: the declared inputs
DeclaredInputs(cls) ==
    CASE cls = querynode -> <<>>
      [] cls = responsenode -> <<Declared("input_data", TRUE)>>
      [] cls = conditionalnode -> <<Declared("left", TRUE), Declared("right", FALSE)>>

\* _define_parameters: the declared parameters
DeclaredParameters(cls) ==
    CASE cls = querynode -> <<Declared("query", TRUE)>>
      [] cls = responsenode -> <<>>
      [] cls = conditionalnode ->
            <<Declared("operator", TRUE), Declared("right_value", FALSE),
              Declared("case_sensitive", FALSE)>>

\* the names of the declarations marked required, in their order
RequiredNames(declared) ==
    LET required == SelectSeq(declared, LAMBDA d : d.required)
    IN  [i \in 1..Len(required) |-> required[i].name]

\* validate_inputs with the test of input_def.required left out
RequiredInputs_AllDeclared(cls) ==
    [i \in 1..Len(DeclaredInputs(cls)) |-> DeclaredInputs(cls)[i].name]

\* validate_inputs: the inputs it insists on
RequiredInputs(cls) == RequiredNames(DeclaredInputs(cls))

\* validate_parameters: the parameters it insists on
RequiredParameters(cls) == RequiredNames(DeclaredParameters(cls))

\* validate_inputs / validate_parameters: the first required name that is
\* missing, or "" when there is none
FirstMissing(required, given) ==
    IF \E i \in 1..Len(required) : required[i] \notin DOMAIN given
    THEN required[CHOOSE i \in 1..Len(required) :
                     /\ required[i] \notin DOMAIN given
                     /\ \A j \in 1..(i - 1) : required[j] \in DOMAIN given]
    ELSE ""

Returned(out) == [ok |-> TRUE, out |-> out, msg |-> ""]
Raised(msg) == [ok |-> FALSE, out |-> EmptyDict, msg |-> msg]

\* QueryNode.execute
QueryNode_execute(inputs, parameters) ==
    LET query == parameters["query"] IN
    IF query.t # "str"
    THEN Raised("object has no attribute 'strip'")
    ELSE Returned("query" :> Str(strip(query.s)))

\* ResponseNode.execute
ResponseNode_execute(inputs, parameters) ==
    LET raw_input == IF "input_data" \in DOMAIN inputs THEN inputs["input_data"] ELSE Str(<<>>)
        input_data == strip(IF raw_input.t = "str" THEN raw_input.s ELSE PyStr(raw_input))
        content == strip(remove_all(input_data, CombinedPrefix))
        final_response ==
            IF input_data # <<>>
            THEN IF startswith(input_data, CombinedPrefix) THEN content ELSE input_data
            ELSE NoResponseYet
    IN  Returned(("final_response" :> Str(final_response)) @@
                 ("response_content" :> Str(final_response)))

Equals == <<"e","q","u","a","l","s">>
Contains == <<"c","o","n","t","a","i","n","s">>
StartsWith == <<"s","t","a","r","t","s","_","w","i","t","h">>
EndsWith == <<"e","n","d","s","_","w","i","t","h">>

\* ConditionalNode.execute
ConditionalNode_execute(inputs, parameters) ==
    LET left_value == IF "left" \in DOMAIN inputs THEN inputs["left"] ELSE Str(<<>>)
        right_in == IF "right" \in DOMAIN inputs THEN inputs["right"] ELSE NoneV
        right_value ==
            IF right_in.t = "NoneType"
            THEN IF "right_value" \in DOMAIN parameters THEN parameters["right_value"]
                 ELSE Str(<<>>)
            ELSE right_in
        operator == IF "operator" \in DOMAIN parameters THEN parameters["operator"]
                    ELSE Str(Contains)
        case_sensitive ==
            IF "case_sensitive" \in DOMAIN parameters THEN Truthy(parameters["case_sensitive"])
            ELSE FALSE
        left_str == IF left_value.t = "NoneType" THEN <<>> ELSE PyStr(left_value)
        right_str == IF right_value.t = "NoneType" THEN <<>> ELSE PyStr(right_value)
        left_cmp == IF ~case_sensitive THEN lower(left_str) ELSE left_str
        right_cmp == IF ~case_sensitive THEN lower(right_str) ELSE right_str
        result ==
            IF operator = Str(Equals) THEN left_cmp = right_cmp
            ELSE IF operator = Str(Contains) THEN contains(left_cmp, right_cmp)
            ELSE IF operator = Str(StartsWith) THEN startswith(left_cmp, right_cmp)
            ELSE IF operator = Str(EndsWith) THEN endswith(left_cmp, right_cmp)
            ELSE FALSE
    IN  Returned(("condition" :> Bool(result)) @@
                 (IF result THEN "true" :> Str(left_str) ELSE "false" :> Str(left_str)))

execute(cls, inputs, parameters) ==
    CASE cls = querynode -> QueryNode_execute(inputs, parameters)
      [] cls = responsenode -> ResponseNode_execute(inputs, parameters)
      [] cls = conditionalnode -> ConditionalNode_execute(inputs, parameters)

\* BaseNode.run: validation, then execute
run(cls, inputs, parameters) ==
    LET missing_input == FirstMissing(RequiredInputs(cls), inputs)
        missing_parameter == FirstMissing(RequiredParameters(cls), parameters)
    IN  IF missing_input # ""
        THEN Raised("Required input '" \o missing_input \o "' is missing")
        ELSE IF missing_parameter # ""
        THEN Raised("Required parameter '" \o missing_parameter \o "' is missing")
        ELSE execute(cls, inputs, parameters)

(***************************************************************************)
(* execute_flow.                                                           *)
(***************************************************************************)
VARIABLES
    nodes_cfg,              \* payload["nodes"]: node id -> [type, name, parameters]
    edges,                  \* payload["edges"]: a list of [from, output, to, input]
    external_inputs,        \* payload["inputs"]: node id -> input map
    pc,                     \* "start", "loop", "pass", "done"; "route", "routed"
    status,                 \* "running", "success", or the error that ended the call
    detail,                 \* the detail of that error
    remaining_nodes, executed, skipped, errors, results, response_node_inputs,
    iterations, progressed,
    ready_nodes,            \* the ready nodes of the pass not yet processed
    ran,                    \* the nodes whose run was called
    built,                  \* node id -> the built_inputs of the node
    instantiated            \* the nodes create_node_instance was called for

vars == <<nodes_cfg, edges, external_inputs, pc, status, detail, remaining_nodes,
          executed, skipped, errors, results, response_node_inputs, iterations,
          progressed, ready_nodes, ran, built, instantiated, registry, call,
          workflows, deployments, deployment_logs>>

payload == <<nodes_cfg, edges, external_inputs>>

NodeIds == DOMAIN nodes_cfg

\* node_spec.get("type") or node_spec.get("name")
TypeOf(node_spec) == IF node_spec.type # <<>> THEN node_spec.type ELSE node_spec.name

\* type_values, keyed by node id
type_values == [nid \in NodeIds |-> lower(TypeOf(nodes_cfg[nid]))]

has_query == \E nid \in NodeIds : type_values[nid] = querynode
has_response == \E nid \in NodeIds : type_values[nid] = responsenode

\* the role check with "and" for "or"
RolesMissing_Both(hq, hr) == ~hq /\ ~hr

\* not has_query or not has_response
RolesMissing(hq, hr) == ~hq \/ ~hr

\* the edge checks applied to the first edge of the list only
FirstBadEdge_FirstOnly ==
    IF /\ edges # <<>>
       /\ \/ edges[1].from = "" \/ edges[1].to = ""
          \/ edges[1].from \notin NodeIds \/ edges[1].to \notin NodeIds
    THEN 1
    ELSE 0

\* the first edge of the list that fails the checks of the edge loop, or 0
FirstBadEdge ==
    LET Bad(i) == \/ edges[i].from = "" \/ edges[i].to = ""
                  \/ edges[i].from \notin NodeIds \/ edges[i].to \notin NodeIds
    IN  IF \E i \in 1..Len(edges) : Bad(i)
        THEN CHOOSE i \in 1..Len(edges) : Bad(i) /\ \A j \in 1..(i - 1) : ~Bad(j)
        ELSE 0

\* the incoming edges of a node, last listed first
incoming_by_node_Reversed(nid) ==
    LET inc == SelectSeq(edges, LAMBDA e : e.to = nid)
    IN  [i \in 1..Len(inc) |-> inc[Len(inc) + 1 - i]]

incoming_by_node(nid) == SelectSeq(edges, LAMBDA e : e.to = nid)
outgoing_by_node(nid) == SelectSeq(edges, LAMBDA e : e.from = nid)
depends_on(nid) == {edges[i].from : i \in {j \in 1..Len(edges) : edges[j].to = nid}}

SafetySlack == 10
max_iterations == Cardinality(NodeIds) + SafetySlack

\* the checks of the payload that come before the execution loop
Compile ==
    /\ pc = "start"
    /\ IF NodeIds = {}
       THEN /\ status' = "nodes is required and cannot be empty"
            /\ detail' = <<>>
            /\ pc' = "done"
       ELSE IF RolesMissing(has_query, has_response)
       THEN /\ status' = "Workflow must include at least one QueryNode and one ResponseNode"
            /\ detail' = [received_types |-> type_values,
                          has_query_node |-> has_query,
                          has_response_node |-> has_response]
            /\ pc' = "done"
       ELSE IF FirstBadEdge # 0
       THEN /\ status' = IF edges[FirstBadEdge].from = "" \/ edges[FirstBadEdge].to = ""
                         THEN "Each edge must include from.node and to.node"
                         ELSE "Edge references unknown nodes"
            /\ detail' = edges[FirstBadEdge]
            /\ pc' = "done"
       ELSE /\ pc' = "loop"
            /\ UNCHANGED <<status, detail>>
    /\ remaining_nodes' = NodeIds
    /\ UNCHANGED <<payload, executed, skipped, errors, results, response_node_inputs,
                   iterations, progressed, ready_nodes, ran, built, instantiated, library, database>>

\* every remaining node taken as ready, whatever it depends on
ReadyNodes_AllRemaining(remaining, done) == remaining

\* [nid for nid in list(remaining_nodes) if depends_on[nid].issubset(executed)]
ReadyNodes(remaining, done) == {nid \in remaining : depends_on(nid) \subseteq done}

\* "while remaining_nodes and iterations < max_iterations": a new pass with its
\* ready_nodes, or the end of the loop and the success payload
LoopTest ==
    /\ pc = "loop"
    /\ IF remaining_nodes # {} /\ iterations < max_iterations
       THEN /\ iterations' = iterations + 1
            /\ progressed' = FALSE
            /\ ready_nodes' = ReadyNodes(remaining_nodes, executed)
            /\ pc' = "pass"
            /\ UNCHANGED status
       ELSE /\ status' = "success"
            /\ pc' = "done"
            /\ UNCHANGED <<iterations, progressed, ready_nodes>>
    /\ UNCHANGED <<payload, detail, remaining_nodes, executed, skipped, errors,
                   results, response_node_inputs, ran, built, instantiated, library, database>>

MissingType == Err("Missing 'type' for node", <<>>, "", "")
UnknownType(type_name) == Err("Unknown node type", type_name, "", "")
\* errors[node_id] = f"{e}\n{tb}"
Exception(msg) == Err("exception", <<>>, "", msg \o "\n" \o "Traceback")

\* str(e) of the TypeError raised by the constructor of a node class
ConstructorMessage == "NodeStyling.__init__() got an unexpected keyword argument 'hide_outputs'"

\* the body of "for node_id in ready_nodes" for one node, from the execution
\* state st: what it does to that state, and whether an exception leaves
\* execute_flow, with its message
LoopBodyOutcome(node_id, st) ==
    LET node_spec == nodes_cfg[node_id]
        type_name == TypeOf(node_spec)
        node_instance == create_node_instance(type_name)
        ext == IF node_id \in DOMAIN external_inputs THEN external_inputs[node_id]
               ELSE EmptyDict
        incoming_list == incoming_by_node(node_id)
        routed == BuildInputs(ext, incoming_list, st.results)
        built_inputs == routed.inputs
        errors1 == IF routed.err # NoError
                   THEN Put(st.errors, node_id, UpstreamError(routed.err))
                   ELSE st.errors
        output == run(node_instance.cls, built_inputs, node_spec.parameters)
        same == [errors |-> st.errors, skipped |-> st.skipped, results |-> st.results,
                 executed |-> st.executed, response |-> st.response,
                 removed |-> FALSE, called |-> FALSE, routed |-> FALSE, raised |-> FALSE,
                 message |-> ""]
    IN  IF type_name = <<>>
        THEN [same EXCEPT !.errors = Put(st.errors, node_id, MissingType), !.removed = TRUE]
        ELSE IF node_instance.kind = "raise"
        THEN [same EXCEPT !.raised = TRUE, !.message = ConstructorMessage]
        ELSE IF node_instance.kind = "none"
        THEN [same EXCEPT !.errors = Put(st.errors, node_id, UnknownType(type_name)),
                          !.removed = TRUE]
        ELSE IF incoming_list # <<>> /\ DOMAIN built_inputs = {}
        THEN [same EXCEPT !.errors = errors1, !.skipped = st.skipped \cup {node_id},
                          !.removed = TRUE, !.routed = TRUE]
        ELSE IF node_id \in DOMAIN errors1
        THEN [same EXCEPT !.errors = errors1, !.removed = TRUE, !.routed = TRUE]
        ELSE IF output.ok
        THEN [same EXCEPT !.results = Put(st.results, node_id, output.out),
                          !.executed = st.executed \cup {node_id},
                          !.response =
                              IF lower(type_name) = responsenode
                              THEN Put(st.response, node_id,
                                       Update(built_inputs, output.out))
                              ELSE st.response,
                          !.removed = TRUE, !.called = TRUE, !.routed = TRUE]
        ELSE [same EXCEPT !.errors = Put(errors1, node_id, Exception(output.msg)),
                          !.removed = TRUE, !.called = TRUE, !.routed = TRUE,
                          \* results[node_id] of a ResponseNode whose run raised
                          !.raised = (lower(type_name) = responsenode),
                          !.message = IF lower(type_name) = responsenode
                                      THEN "'" \o node_id \o "'" ELSE ""]

\* the execution state of the call
ExecutionState ==
    [errors |-> errors, skipped |-> skipped, results |-> results, executed |-> executed,
     response |-> response_node_inputs]

\* the loop body for node_id in the current state
ProcessOutcome(node_id) == LoopBodyOutcome(node_id, ExecutionState)

\* the effect of the loop body for node_id with the outcome o
LoopBody(node_id, o) ==
    /\ errors' = o.errors
    /\ skipped' = o.skipped
    /\ results' = o.results
    /\ executed' = o.executed
    /\ response_node_inputs' = o.response
    /\ remaining_nodes' = IF o.removed THEN remaining_nodes \ {node_id}
                          ELSE remaining_nodes
    /\ progressed' = (progressed \/ o.removed)
    /\ ran' = IF o.called THEN ran \cup {node_id} ELSE ran
    /\ built' = IF o.routed
                THEN Put(built, node_id,
                         BuildInputs(IF node_id \in DOMAIN external_inputs
                                     THEN external_inputs[node_id] ELSE EmptyDict,
                                     incoming_by_node(node_id), results).inputs)
                ELSE built
    /\ instantiated' = IF TypeOf(nodes_cfg[node_id]) # <<>>
                       THEN instantiated \cup {node_id}
                       ELSE instantiated
    /\ ready_nodes' = ready_nodes \ {node_id}
    /\ IF o.raised
       THEN /\ status' = "Failed to execute flow"
            /\ detail' = o.message
            /\ pc' = "done"
       ELSE UNCHANGED <<status, detail, pc>>

\* the loop body with an empty results entry written for a skipped node
ProcessNode_ResultsForSkipped ==
    /\ pc = "pass"
    /\ \E node_id \in ready_nodes :
         LET o == ProcessOutcome(node_id) IN
         LoopBody(node_id, [o EXCEPT !.results = IF node_id \in o.skipped
                                                 THEN Put(o.results, node_id, EmptyDict)
                                                 ELSE o.results])
    /\ UNCHANGED <<payload, iterations, library, database>>

\* the loop body with executed.add after the try, reached also when run raised
ProcessNode_ExecutedOnRaise ==
    /\ pc = "pass"
    /\ \E node_id \in ready_nodes :
         LET o == ProcessOutcome(node_id) IN
         LoopBody(node_id, [o EXCEPT !.executed = IF o.called THEN executed \cup {node_id}
                                                  ELSE o.executed])
    /\ UNCHANGED <<payload, iterations, library, database>>

\* the loop body without the try around run: an exception of run leaves
\* execute_flow
ProcessNode_RunUncaught ==
    /\ pc = "pass"
    /\ \E node_id \in ready_nodes :
         LET o == ProcessOutcome(node_id)
             run_raised == o.called /\ node_id \notin o.executed
         IN  LoopBody(node_id, [o EXCEPT !.raised = o.raised \/ run_raised,
                                         !.message = IF run_raised
                                                     THEN o.errors[node_id].what
                                                     ELSE o.message])
    /\ UNCHANGED <<payload, iterations, library, database>>

\* the loop body with remaining_nodes.remove inside the try, after run: a node
\* whose run raised stays in remaining
ProcessNode_KeptOnRaise ==
    /\ pc = "pass"
    /\ \E node_id \in ready_nodes :
         LET o == ProcessOutcome(node_id) IN
         LoopBody(node_id, [o EXCEPT !.removed = o.removed /\
                                                  ~(o.called /\ node_id \notin o.executed)])
    /\ UNCHANGED <<payload, iterations, library, database>>

\* one ready node of the pass, in the arbitrary order of list(set)
ProcessNode ==
    /\ pc = "pass"
    /\ \E node_id \in ready_nodes : LoopBody(node_id, ProcessOutcome(node_id))
    /\ UNCHANGED <<payload, iterations, library, database>>

\* the foot of a pass without the deadlock error
EndPass_NoDeadlock ==
    /\ pc = "pass"
    /\ ready_nodes = {}
    /\ pc' = "loop"
    /\ UNCHANGED <<payload, status, detail, remaining_nodes, executed, skipped, errors,
                   results, response_node_inputs, iterations, progressed, ready_nodes,
                   ran, built, instantiated, library, database>>

\* the foot of a pass: "if not progressed"
EndPass ==
    /\ pc = "pass"
    /\ ready_nodes = {}
    /\ IF ~progressed
       THEN /\ status' = "Unresolved dependencies or cyclic graph"
            /\ detail' = remaining_nodes
            /\ pc' = "done"
       ELSE /\ pc' = "loop"
            /\ UNCHANGED <<status, detail>>
    /\ UNCHANGED <<payload, remaining_nodes, executed, skipped, errors, results,
                   response_node_inputs, iterations, progressed, ready_nodes, ran, built,
                   instantiated, library, database>>

\* the execution state at the start of a call
FreshState ==
    /\ status = "running"
    /\ detail = <<>>
    /\ remaining_nodes = {}
    /\ executed = {}
    /\ skipped = {}
    /\ errors = EmptyDict
    /\ results = EmptyDict
    /\ response_node_inputs = EmptyDict
    /\ iterations = 0
    /\ progressed = FALSE
    /\ ready_nodes = {}
    /\ ran = {}
    /\ built = EmptyDict
    /\ instantiated = {}

\* the registry after register_all_nodes at startup: every class under its
\* lower-cased name
register_all_nodes == [key \in RegisteredNodes |-> key]

NoCall == [op |-> "none"]

\* the server after startup, before any call
Started ==
    /\ registry = register_all_nodes
    /\ call = NoCall
    /\ init_db

(***************************************************************************)
(* The payloads of the checked families.                                   *)
(***************************************************************************)
NodeId(i) == "n" \o ToString(i)
Ids(N) == {NodeId(i) : i \in 1..N}

Hi == <<" ", "h", "i">>
Blank == <<" ">>
BogusNodeName == <<"B","o","g","u","s","N","o","d","e">>
UpperQueryNodeName == <<"Q","U","E","R","Y","N","O","D","E">>

NodeSpec(type, name, parameters) == [type |-> type, name |-> name, parameters |-> parameters]

Edge(from, output, to, input) == [from |-> from, output |-> output, to |-> to, input |-> input]

\* the elements of a set of numbers in increasing order
RECURSIVE Sorted(_)
Sorted(S) ==
    IF S = {} THEN <<>>
    ELSE LET m == CHOOSE x \in S : \A y \in S : x <= y IN <<m>> \o Sorted(S \ {m})

\* Node ids are labels: the kinds of the nodes n1, n2, ... are drawn in
\* non-decreasing order of their place in the list of kinds.
NodesOfKinds(kinds, N) ==
    {[nid \in Ids(N) |-> kinds[k[CHOOSE i \in 1..N : NodeId(i) = nid]]] :
        k \in {f \in [1..N -> 1..Len(kinds)] : \A i \in 1..(N - 1) : f[i] <= f[i + 1]}}

\* The scheduler family.  Node specs: a query that yields text, one that
\* yields the empty text, one without its required parameter, a response
\* node, an unregistered type, no type at all.
NodeKinds ==
    << NodeSpec(QueryNodeName, <<>>, "query" :> Str(Hi)),
       NodeSpec(QueryNodeName, <<>>, "query" :> Str(Blank)),
       NodeSpec(QueryNodeName, <<>>, EmptyDict),
       NodeSpec(ResponseNodeName, <<>>, EmptyDict),
       NodeSpec(BogusNodeName, <<>>, EmptyDict),
       NodeSpec(<<>>, <<>>, EmptyDict) >>

\* the k-th of the N * N edges between declared nodes (self-loops included),
\* from the named output "query" to the input "input_data"
EdgeNumber(k, N) ==
    Edge(NodeId(((k - 1) \div N) + 1), "query", NodeId(((k - 1) % N) + 1), "input_data")

\* up to MaxEdges distinct edges, listed in the order of their numbers
EdgeLists(N) ==
    {[j \in 1..Cardinality(S) |-> EdgeNumber(Sorted(S)[j], N)] :
        S \in {T \in SUBSET (1..(N * N)) : Cardinality(T) <= MaxEdges}}

\* no external inputs, or one input for every node
ExternalChoices(N) == {EmptyDict, [nid \in Ids(N) |-> ("note" :> Str(Hi))]}

\* payloads that pass the checks of Compile
InitPayload ==
    \E N \in 1..MaxNodes :
        /\ nodes_cfg \in NodesOfKinds(NodeKinds, N)
        /\ has_query /\ has_response
        /\ edges \in EdgeLists(N)
        /\ external_inputs \in ExternalChoices(N)

Init ==
    /\ InitPayload
    /\ pc = "start"
    /\ FreshState
    /\ Started

Next == Compile \/ LoopTest \/ ProcessNode \/ EndPass

Spec == Init /\ [][Next]_vars

\* The compile family: any mix of node types, the query or response type also
\* in another case or given by "name", with edges that miss an end or name an
\* undeclared node.
CompileKinds ==
    << NodeSpec(QueryNodeName, <<>>, "query" :> Str(Hi)),
       NodeSpec(UpperQueryNodeName, <<>>, "query" :> Str(Hi)),
       NodeSpec(<<>>, querynode, "query" :> Str(Hi)),
       NodeSpec(ResponseNodeName, <<>>, EmptyDict),
       NodeSpec(responsenode, <<>>, EmptyDict),
       NodeSpec(BogusNodeName, <<>>, EmptyDict),
       NodeSpec(<<>>, <<>>, EmptyDict) >>

CompileEdges ==
    {Edge(NodeId(1), "query", NodeId(2), "input_data"),
     Edge(NodeId(1), "query", "ghost", "input_data"),
     Edge("ghost", "", NodeId(1), ""),
     Edge("", "query", NodeId(1), "input_data"),
     Edge(NodeId(1), "query", "", "input_data")}

InitCompile ==
    /\ \E N \in 0..MaxNodes : nodes_cfg \in NodesOfKinds(CompileKinds, N)
    /\ \E m \in 0..MaxEdges : edges \in [1..m -> CompileEdges]
    /\ external_inputs \in {EmptyDict, NodeId(1) :> ("note" :> Str(Hi))}
    /\ pc = "start"
    /\ FreshState
    /\ Started

SpecCompile == InitCompile /\ [][Next]_vars

\* The conditional scenario: q -> c.left, c.true -> r.input_data,
\* c.false -> r.input_data, for every query, operator, right_value and case
\* sensitivity, the output of q named or not.
MaxTextLen == 2

Texts(alphabet) == UNION {[1..m -> alphabet] : m \in 0..MaxTextLen}

Matches == <<"m","a","t","c","h","e","s">>
Operators == {Equals, Contains, StartsWith, EndsWith, Matches}

InitCond ==
    /\ \E query \in Texts({"c", "C", " "}), right_value \in Texts({"c", "C"}),
          operator \in Operators, case_sensitive \in BOOLEAN :
         nodes_cfg =
            ("q" :> NodeSpec(QueryNodeName, <<>>, "query" :> Str(query))) @@
            ("c" :> NodeSpec(ConditionalNodeName, <<>>,
                             ("operator" :> Str(operator)) @@
                             ("right_value" :> Str(right_value)) @@
                             ("case_sensitive" :> Bool(case_sensitive)))) @@
            ("r" :> NodeSpec(ResponseNodeName, <<>>, EmptyDict))
    /\ \E query_output \in {"", "query"} :
         edges = << Edge("q", query_output, "c", "left"),
                    Edge("c", "true", "r", "input_data"),
                    Edge("c", "false", "r", "input_data") >>
    /\ external_inputs = EmptyDict
    /\ pc = "start"
    /\ FreshState
    /\ Started

SpecCond == InitCond /\ [][Next]_vars

\* The scenario family: a query node q and a response node r joined by one
\* edge, for every query text, the edge naming its output and input or not,
\* with and without an external input for r.
InitScenario ==
    /\ \E query \in Texts({"h", "i", " "}) :
         nodes_cfg = ("q" :> NodeSpec(QueryNodeName, <<>>, "query" :> Str(query))) @@
                     ("r" :> NodeSpec(ResponseNodeName, <<>>, EmptyDict))
    /\ \E output \in {"query", ""}, input \in {"input_data", ""} :
         edges = << Edge("q", output, "r", input) >>
    /\ external_inputs \in {EmptyDict, "r" :> ("note" :> Str(Hi))}
    /\ pc = "start"
    /\ FreshState
    /\ Started

SpecScenario == InitScenario /\ [][Next]_vars

\* The routing family: the built inputs of a node t with up to MaxEdges
\* incoming edges from two executed nodes, s1 with one output and s2 with two,
\* for outputs of every type, empty and not.
RouteValues ==
    {NoneV, Str(<<>>), List(<<>>), Dict(EmptyDict), Str(<<"a">>), Str(<<"b">>), Str(<<" ">>),
     List(<<Str(<<"a">>)>>), Dict("k" :> Str(<<"a">>)), Bool(FALSE)}

RouteEdgeChoices ==
    {Edge(f, o, "t", i) : f \in {"s1", "s2"}, o \in {"out", "gone", ""}, i \in {"x", ""}}

InitRoute ==
    /\ nodes_cfg = [nid \in {"s1", "s2", "t"} |->
                       NodeSpec(QueryNodeName, <<>>, "query" :> Str(Hi))]
    /\ \E m \in 0..MaxEdges : edges \in [1..m -> RouteEdgeChoices]
    /\ external_inputs \in {EmptyDict, "t" :> ("x" :> Str(Hi))}
    /\ \E v1 \in RouteValues, v2 \in RouteValues :
         results = ("s1" :> ("out" :> v1)) @@
                   ("s2" :> (("out" :> v2) @@ ("more" :> Str(Hi))))
    /\ executed = {"s1", "s2"}
    /\ remaining_nodes = {"t"}
    /\ ready_nodes = {"t"}
    /\ pc = "route"
    /\ status = "running"
    /\ detail = <<>>
    /\ skipped = {}
    /\ errors = EmptyDict
    /\ response_node_inputs = EmptyDict
    /\ iterations = 1
    /\ progressed = FALSE
    /\ ran = {"s1", "s2"}
    /\ built = EmptyDict
    /\ instantiated = {"s1", "s2"}
    /\ Started

\* the routing steps of the loop body for the node t: built_inputs
RouteNode ==
    /\ pc = "route"
    /\ \E node_id \in ready_nodes :
         /\ built' = Put(built, node_id,
                         BuildInputs(IF node_id \in DOMAIN external_inputs
                                     THEN external_inputs[node_id] ELSE EmptyDict,
                                     incoming_by_node(node_id), results).inputs)
         /\ ready_nodes' = ready_nodes \ {node_id}
    /\ pc' = "routed"
    /\ UNCHANGED <<payload, status, detail, remaining_nodes, executed, skipped, errors,
                   results, response_node_inputs, iterations, progressed, ran,
                   instantiated, library, database>>

SpecRoute == InitRoute /\ [][RouteNode]_vars

\* the variables of execute_flow
flow == <<nodes_cfg, edges, external_inputs, pc, status, detail, remaining_nodes,
          executed, skipped, errors, results, response_node_inputs, iterations,
          progressed, ready_nodes, ran, built, instantiated>>

\* no call of execute_flow is in progress
Idle ==
    /\ nodes_cfg = EmptyDict
    /\ edges = <<>>
    /\ external_inputs = EmptyDict
    /\ pc = "idle"
    /\ FreshState

\* The registry family: node classes registered under their default key or
\* under an explicit name, and looked up under names in every case.
NodeClasses == {querynode, responsenode, conditionalnode}

ExplicitNames == {<<"A", "b">>, <<"a", "b">>}

LookupNames ==
    RegisteredNodes \cup ExplicitNames \cup
    {QueryNodeName, UpperQueryNodeName, ResponseNodeName, ConditionalNodeName,
     <<"A", "B">>, BogusNodeName}

\* NodeRegistry.register_node: name is <<>> for a call without a name
register_node(node_class, name) ==
    LET node_name == IF name # <<>> THEN name ELSE node_class
    IN  /\ registry' = Put(registry, node_name, node_class)
        /\ call' = [op |-> "register_node", name |-> name, result |-> NoneV]
        /\ UNCHANGED <<flow, database>>

RegisterNode ==
    \E node_class \in NodeClasses, name \in ExplicitNames \cup {<<>>} :
        register_node(node_class, name)

\* a call of NodeRegistry.create_node and what it returns or raises
CreateNode ==
    \E name \in LookupNames :
        /\ call' = [op |-> "create_node", name |-> name, result |-> create_node(name)]
        /\ UNCHANGED <<registry, flow, database>>

InitRegistry ==
    /\ registry \in {EmptyDict, register_all_nodes}
    /\ call = NoCall
    /\ init_db
    /\ Idle

NextRegistry == RegisterNode \/ CreateNode

SpecRegistry == InitRegistry /\ [][NextRegistry]_vars

\* The run family: run called on an instance of a node class with every mix
\* of present, absent and None inputs and parameters.
RunClasses == {cls \in NodeClasses : create_node(cls).kind = "instance"}

\* the maps that give each key one of its values, or leave it out
MapsOver(choices) ==
    UNION {{m \in [K -> UNION {choices[k] : k \in K}] : \A k \in K : m[k] \in choices[k]} :
              K \in SUBSET DOMAIN choices}

RunInputs ==
    MapsOver(("left" :> {Str(<<"a">>), NoneV}) @@
             ("right" :> {Str(<<"a">>), NoneV}) @@
             ("note" :> {Str(Hi)}))

RunParameters ==
    MapsOver(("query" :> {Str(Hi), NoneV}) @@
             ("operator" :> {Str(Equals)}) @@
             ("right_value" :> {Str(<<"A">>)}) @@
             ("case_sensitive" :> {Bool(TRUE)}))

\* a call of BaseNode.run on a new instance and what it returns or raises
Run ==
    \E cls \in RunClasses, inputs \in RunInputs, parameters \in RunParameters :
        /\ call' = [op |-> "run", cls |-> cls, inputs |-> inputs, parameters |-> parameters,
                    result |-> run(cls, inputs, parameters)]
        /\ UNCHANGED <<registry, flow, database>>

InitRun ==
    /\ Started
    /\ Idle

SpecRun == InitRun /\ [][Run]_vars

\* The combiner family: combine_multiple_inputs called on every list of up to
\* MaxValues values, each None or a text of letters and blanks.
MaxValues == 3

CombineValues == {NoneV} \cup {Str(text) : text \in Texts({"a", " "})}

InitCombine ==
    /\ registry = register_all_nodes
    /\ \E m \in 0..MaxValues :
         \E values \in [1..m -> CombineValues] :
             call = [op |-> "call combine_multiple_inputs", values |-> values]
    /\ init_db
    /\ Idle

\* the call returns
Combine ==
    /\ call.op = "call combine_multiple_inputs"
    /\ call' = [op |-> "combine_multiple_inputs", values |-> call.values,
                result |-> combine_multiple_inputs(call.values)]
    /\ UNCHANGED <<registry, flow, database>>

SpecCombine == InitCombine /\ [][Combine]_vars

(***************************************************************************)
(* Deployments: api/v1/deployments.py.  A saved workflow is the React Flow *)
(* graph of the workflows table; a deployment row holds the graph compiled *)
(* for execute_flow.  json.dumps and json.loads of these graphs (dicts and *)
(* lists of strings) give back an equal, new object: a row is a value, and *)
(* what a call changes in the object it loaded is local to the call.       *)
(***************************************************************************)
query_node == <<"q","u","e","r","y","_","n","o","d","e">>
response_node == <<"r","e","s","p","o","n","s","e","_","n","o","d","e">>
conditional_node == <<"c","o","n","d","i","t","i","o","n","a","l","_","n","o","d","e">>
language_model_node == <<"l","a","n","g","u","a","g","e","_","m","o","d","e","l","_","n","o","d","e">>
web_search_node == <<"w","e","b","_","s","e","a","r","c","h","_","n","o","d","e">>
knowledge_base_retrieval_node == <<"k","n","o","w","l","e","d","g","e","_","b","a","s","e","_","r","e","t","r","i","e","v","a","l","_","n","o","d","e">>
intent_classification_node == <<"i","n","t","e","n","t","_","c","l","a","s","s","i","f","i","c","a","t","i","o","n","_","n","o","d","e">>
bogus_node == <<"b","o","g","u","s","_","n","o","d","e">>
LanguageModelNodeName == <<"L","a","n","g","u","a","g","e","M","o","d","e","l","N","o","d","e">>
WebSearchNodeName == <<"W","e","b","S","e","a","r","c","h","N","o","d","e">>
KnowledgeBaseRetrievalNodeName == <<"K","n","o","w","l","e","d","g","e","B","a","s","e","R","e","t","r","i","e","v","a","l","N","o","d","e">>
IntentClassificationNodeName == <<"I","n","t","e","n","t","C","l","a","s","s","i","f","i","c","a","t","i","o","n","N","o","d","e">>
OutputPrefix == <<"o","u","t","p","u","t","-">>
InputPrefix == <<"i","n","p","u","t","-">>

NODE_ID_TO_CLASS ==
    (query_node :> QueryNodeName) @@
    (language_model_node :> LanguageModelNodeName) @@
    (web_search_node :> WebSearchNodeName) @@
    (knowledge_base_retrieval_node :> KnowledgeBaseRetrievalNodeName) @@
    (intent_classification_node :> IntentClassificationNodeName) @@
    (conditional_node :> ConditionalNodeName) @@
    (response_node :> ResponseNodeName)

Letters == (DOMAIN UpperToLower) \cup {UpperToLower[c] : c \in DOMAIN UpperToLower}

\* str.title(): the first letter of every run of letters in upper case, the
\* others in lower case
title(s) ==
    [i \in 1..Len(s) |->
        IF s[i] \notin Letters THEN s[i]
        ELSE IF i = 1 \/ s[i - 1] \notin Letters
        THEN IF s[i] \in DOMAIN UpperToLower THEN s[i]
             ELSE CHOOSE c \in DOMAIN UpperToLower : UpperToLower[c] = s[i]
        ELSE lower(<<s[i]>>)[1]]

\* _norm_handle of compile_workflow: the first of the prefixes "output-" and
\* "input-" that the handle starts with is cut off
norm_handle(val) ==
    IF val = <<>> THEN val
    ELSE IF startswith(val, OutputPrefix) THEN SubSeq(val, Len(OutputPrefix) + 1, Len(val))
    ELSE IF startswith(val, InputPrefix) THEN SubSeq(val, Len(InputPrefix) + 1, Len(val))
    ELSE val

\* a text as the key of a dict; the empty text stands for None
RECURSIVE Key(_)
Key(s) == IF s = <<>> THEN "" ELSE Head(s) \o Key(Tail(s))

SavedNode(id, node_id, parameters) ==
    [id |-> id, node_id |-> node_id, parameters |-> parameters]

SavedEdge(source, sourceHandle, target, targetHandle) ==
    [source |-> source, sourceHandle |-> sourceHandle,
     target |-> target, targetHandle |-> targetHandle]

\* compile_workflow: the saved graph in the format of execute_flow
compile_workflow(saved) ==
    [nodes |->
        [nid \in {saved.nodes[i].id : i \in 1..Len(saved.nodes)} |->
            LET last == CHOOSE i \in 1..Len(saved.nodes) :
                            /\ saved.nodes[i].id = nid
                            /\ \A j \in (i + 1)..Len(saved.nodes) : saved.nodes[j].id # nid
                n == saved.nodes[last]
                backend_id == lower(n.node_id)
                node_class == IF backend_id \in DOMAIN NODE_ID_TO_CLASS
                              THEN NODE_ID_TO_CLASS[backend_id]
                              ELSE remove_all(title(backend_id), <<"_">>)
            IN  NodeSpec(node_class, <<>>, n.parameters)],
     edges |->
        [j \in 1..Len(saved.edges) |->
            Edge(saved.edges[j].source, Key(norm_handle(saved.edges[j].sourceHandle)),
                 saved.edges[j].target, Key(norm_handle(saved.edges[j].targetHandle)))]]

\* raise HTTPException(status_code, detail)
HTTPException(status_code, message) ==
    [ok |-> FALSE, status_code |-> status_code, detail |-> message, data |-> NoneV]

\* return data
Return(data) == [ok |-> TRUE, status_code |-> 200, detail |-> "", data |-> data]

DeploymentIds == {"d1", "d2"}

\* create_deployment without the lookup of an existing row: a row is inserted
\* by every call
create_deployment_AlwaysInsert(workflow_id, name) ==
    /\ pc = "idle"
    /\ IF workflow_id \notin DOMAIN workflows
       THEN /\ call' = [op |-> "create_deployment", workflow_id |-> workflow_id,
                        name |-> name,
                        result |-> HTTPException(404, "Workflow not found")]
            /\ UNCHANGED deployments
       ELSE LET wf == workflows[workflow_id]
                new_name == IF name # <<>> THEN name ELSE wf.name
            IN  \E dep_id \in DeploymentIds \ DOMAIN deployments :
                    /\ deployments' =
                          Put(deployments, dep_id,
                              [name |-> new_name, workflow_id |-> workflow_id,
                               data |-> compile_workflow(wf.data), is_active |-> 1])
                    /\ call' = [op |-> "create_deployment",
                                workflow_id |-> workflow_id, name |-> name,
                                result |-> Return([id |-> dep_id, updated |-> FALSE])]
    /\ UNCHANGED <<registry, flow, workflows, deployment_logs>>

\* create_deployment; name is <<>> for a call without a name.  The id of a new
\* row is a uuid4, any id not in the table.
create_deployment(workflow_id, name) ==
    /\ pc = "idle"
    /\ IF workflow_id \notin DOMAIN workflows
       THEN /\ call' = [op |-> "create_deployment", workflow_id |-> workflow_id,
                        name |-> name,
                        result |-> HTTPException(404, "Workflow not found")]
            /\ UNCHANGED deployments
       ELSE LET wf == workflows[workflow_id]
                compiled == compile_workflow(wf.data)
                existing == {id \in DOMAIN deployments :
                                deployments[id].workflow_id = workflow_id}
                new_name == IF name # <<>> THEN name ELSE wf.name
            IN  IF existing # {}
                THEN \E dep_id \in existing :
                        /\ deployments' = [deployments EXCEPT ![dep_id].name = new_name,
                                                              ![dep_id].data = compiled]
                        /\ call' = [op |-> "create_deployment",
                                    workflow_id |-> workflow_id, name |-> name,
                                    result |-> Return([id |-> dep_id, updated |-> TRUE])]
                ELSE \E dep_id \in DeploymentIds \ DOMAIN deployments :
                        /\ deployments' =
                              Put(deployments, dep_id,
                                  [name |-> new_name, workflow_id |-> workflow_id,
                                   data |-> compiled, is_active |-> 1])
                        /\ call' = [op |-> "create_deployment",
                                    workflow_id |-> workflow_id, name |-> name,
                                    result |-> Return([id |-> dep_id, updated |-> FALSE])]
    /\ UNCHANGED <<registry, flow, workflows, deployment_logs>>

\* toggle_deployment
toggle_deployment(deployment_id) ==
    /\ pc = "idle"
    /\ IF deployment_id \notin DOMAIN deployments
       THEN /\ call' = [op |-> "toggle_deployment", deployment_id |-> deployment_id,
                        result |-> HTTPException(404, "Deployment not found")]
            /\ UNCHANGED deployments
       ELSE LET new_status == IF deployments[deployment_id].is_active = 0 THEN 1 ELSE 0
            IN  /\ deployments' = [deployments EXCEPT ![deployment_id].is_active = new_status]
                /\ call' = [op |-> "toggle_deployment", deployment_id |-> deployment_id,
                            result |-> Return([is_active |-> new_status])]
    /\ UNCHANGED <<registry, flow, workflows, deployment_logs>>

\* payload.query is not None and payload.query != ""
HasQuery(query) == query.t # "NoneType" /\ query.s # <<>>

\* the loaded nodes with parameters.query of every QueryNode set to the query
OverrideQuery(nodes, query) ==
    [nid \in DOMAIN nodes |->
        IF lower(nodes[nid].type) = querynode
        THEN [nodes[nid] EXCEPT !.parameters = Put(@, "query", query)]
        ELSE nodes[nid]]

MaxLogs == 2

\* the call enters execute_flow with these nodes, edges and inputs
Execute(nodes, edgs, inputs) ==
    /\ nodes_cfg' = nodes
    /\ edges' = edgs
    /\ external_inputs' = inputs
    /\ pc' = "start"
    /\ status' = "running"
    /\ detail' = <<>>
    /\ remaining_nodes' = {}
    /\ executed' = {}
    /\ skipped' = {}
    /\ errors' = EmptyDict
    /\ results' = EmptyDict
    /\ response_node_inputs' = EmptyDict
    /\ iterations' = 0
    /\ progressed' = FALSE
    /\ ready_nodes' = {}
    /\ ran' = {}
    /\ built' = EmptyDict
    /\ instantiated' = {}

\* the locals of execute_flow are gone when the call is over
Leave ==
    /\ nodes_cfg' = EmptyDict
    /\ edges' = <<>>
    /\ external_inputs' = EmptyDict
    /\ pc' = "idle"
    /\ status' = "running"
    /\ detail' = <<>>
    /\ remaining_nodes' = {}
    /\ executed' = {}
    /\ skipped' = {}
    /\ errors' = EmptyDict
    /\ results' = EmptyDict
    /\ response_node_inputs' = EmptyDict
    /\ iterations' = 0
    /\ progressed' = FALSE
    /\ ready_nodes' = {}
    /\ ran' = {}
    /\ built' = EmptyDict
    /\ instantiated' = {}

\* invoke_deployment with the query written to the row of the deployment too
invoke_deployment_StoresQuery(deployment_id, query, inputs) ==
    /\ pc = "idle"
    /\ Len(deployment_logs) < MaxLogs
    /\ deployment_id \in DOMAIN deployments
    /\ deployments[deployment_id].is_active = 1
    /\ LET compiled == deployments[deployment_id].data
           nodes == IF HasQuery(query) THEN OverrideQuery(compiled.nodes, query)
                    ELSE compiled.nodes
       IN  /\ call' = [op |-> "invoke_deployment", deployment_id |-> deployment_id,
                       query |-> query, phase |-> "executing", log_calls |-> <<>>,
                       result |-> NoneV]
           /\ deployments' = [deployments EXCEPT ![deployment_id].data.nodes = nodes]
           /\ Execute(nodes, compiled.edges, inputs)
    /\ UNCHANGED <<registry, workflows, deployment_logs>>

\* invoke_deployment up to the call of the executor; query is None or a text
invoke_deployment(deployment_id, query, inputs) ==
    /\ pc = "idle"
    /\ Len(deployment_logs) < MaxLogs
    /\ IF deployment_id \notin DOMAIN deployments
       THEN /\ call' = [op |-> "invoke_deployment", deployment_id |-> deployment_id,
                        query |-> query, phase |-> "rejected", log_calls |-> <<>>,
                        result |-> HTTPException(404, "Deployment not found")]
            /\ UNCHANGED flow
       ELSE IF deployments[deployment_id].is_active # 1
       THEN /\ call' = [op |-> "invoke_deployment", deployment_id |-> deployment_id,
                        query |-> query, phase |-> "rejected", log_calls |-> <<>>,
                        result |-> HTTPException(400, "Deployment is inactive")]
            /\ UNCHANGED flow
       ELSE LET compiled == deployments[deployment_id].data
                nodes == IF HasQuery(query) THEN OverrideQuery(compiled.nodes, query)
                         ELSE compiled.nodes
            IN  /\ call' = [op |-> "invoke_deployment", deployment_id |-> deployment_id,
                            query |-> query, phase |-> "executing", log_calls |-> <<>>,
                            result |-> NoneV]
                /\ Execute(nodes, compiled.edges, inputs)
    /\ UNCHANGED <<registry, database>>

\* what execute_flow gives its caller: the success payload, or an
\* HTTPException with the message and the detail of the error
ExecutorOutcome ==
    IF status = "success"
    THEN Return([response_inputs |-> response_node_inputs, executed_nodes |-> executed,
                 skipped_nodes |-> skipped, errors |-> errors])
    ELSE HTTPException(IF status = "Failed to execute flow" THEN 500 ELSE 400,
                       <<status, detail>>)

LogsKept == 50

\* the prune_query of log_deployment_invocation: of the rows of the
\* deployment only the LogsKept newest stay
Pruned(logs, deployment_id) ==
    LET kept == {i \in 1..Len(logs) :
                    \/ logs[i].deployment_id # deployment_id
                    \/ Cardinality({j \in (i + 1)..Len(logs) :
                                       logs[j].deployment_id = deployment_id}) < LogsKept}
    IN  [j \in 1..Cardinality(kept) |-> logs[Sorted(kept)[j]]]

\* log_deployment_invocation: the row is inserted, and pruned with it when
\* should_prune
log_deployment_invocation(entry, should_prune) ==
    IF should_prune THEN Pruned(Append(deployment_logs, entry), entry.deployment_id)
    ELSE Append(deployment_logs, entry)

\* the row invoke_deployment hands to log_deployment_invocation
LogEntry(deployment_id, query, inputs, outcome) ==
    [deployment_id |-> deployment_id,
     status |-> IF outcome.ok THEN "success" ELSE "error",
     request |-> [query |-> query, inputs |-> inputs],
     response |-> IF outcome.ok THEN outcome.data ELSE NoneV,
     error |-> IF outcome.ok THEN NoneV ELSE outcome]

\* the finally clause without the call of log_deployment_invocation when the
\* executor raised
ExecutorReturns_NoLogOnError ==
    /\ call.op = "invoke_deployment" /\ call.phase = "executing"
    /\ pc = "done"
    /\ LET outcome == ExecutorOutcome
           entry == LogEntry(call.deployment_id, call.query, external_inputs, outcome)
       IN  \E written \in BOOLEAN, should_prune \in BOOLEAN :
              /\ deployment_logs' = IF written /\ outcome.ok
                                    THEN log_deployment_invocation(entry, should_prune)
                                    ELSE deployment_logs
              /\ call' = [call EXCEPT !.phase = "done",
                                      !.log_calls = IF outcome.ok THEN Append(@, entry) ELSE @,
                                      !.result = outcome]
    /\ Leave
    /\ UNCHANGED <<registry, workflows, deployments>>

\* the executor has returned or raised: the finally clause of
\* invoke_deployment calls log_deployment_invocation, whose failure (written
\* is FALSE) is caught and printed, and the call returns the result or raises
\* the exception of the executor
ExecutorReturns ==
    /\ call.op = "invoke_deployment" /\ call.phase = "executing"
    /\ pc = "done"
    /\ LET outcome == ExecutorOutcome
           entry == LogEntry(call.deployment_id, call.query, external_inputs, outcome)
       IN  \E written \in BOOLEAN, should_prune \in BOOLEAN :
              /\ deployment_logs' = IF written
                                    THEN log_deployment_invocation(entry, should_prune)
                                    ELSE deployment_logs
              /\ call' = [call EXCEPT !.phase = "done",
                                      !.log_calls = Append(@, entry),
                                      !.result = outcome]
    /\ Leave
    /\ UNCHANGED <<registry, workflows, deployments>>

\* The saved graphs of the deployment family: a query node wired to a
\* response node; the same with a second query node that has no query of its
\* own; a query node and a node of a type that is not in NODE_ID_TO_CLASS.
OutputQuery == OutputPrefix \o <<"q","u","e","r","y">>
InputData == InputPrefix \o <<"i","n","p","u","t","_","d","a","t","a">>

SavedGraphs ==
    { [nodes |-> << SavedNode("q", query_node, "query" :> Str(Hi)),
                    SavedNode("r", response_node, EmptyDict) >>,
       edges |-> << SavedEdge("q", OutputQuery, "r", InputData) >>],
      [nodes |-> << SavedNode("q", query_node, "query" :> Str(Hi)),
                    SavedNode("p", query_node, EmptyDict),
                    SavedNode("r", response_node, EmptyDict) >>,
       edges |-> << SavedEdge("q", OutputQuery, "r", InputData),
                    SavedEdge("p", OutputQuery, "r", InputData) >>],
      [nodes |-> << SavedNode("q", query_node, "query" :> Str(Hi)),
                    SavedNode("b", bogus_node, EmptyDict) >>,
       edges |-> <<>>] }

WorkflowName == <<"w">>

\* the workflows tables with a saved graph for each of the ids
WorkflowTables(ids) == [ids -> [name : {WorkflowName}, data : SavedGraphs]]

CreateNames == {<<>>, <<"a">>}

Yo == <<"y", "o">>

InvokeQueries == {NoneV, Str(<<>>), Str(Yo)}

CreateDeployment ==
    \E workflow_id \in {"w1", "w2"}, name \in CreateNames :
        create_deployment(workflow_id, name)

ToggleDeployment ==
    \E deployment_id \in DeploymentIds : toggle_deployment(deployment_id)

InvokeDeployment ==
    \E deployment_id \in DeploymentIds, query \in InvokeQueries :
        invoke_deployment(deployment_id, query, EmptyDict)

\* The deployment family: one saved workflow, deployed, toggled and invoked
\* with and without a query, one call at a time.
InitDeploy ==
    /\ registry = register_all_nodes
    /\ call = NoCall
    /\ workflows \in WorkflowTables({"w1"})
    /\ deployments = <<>>
    /\ deployment_logs = <<>>
    /\ Idle

NextDeploy ==
    \/ CreateDeployment
    \/ ToggleDeployment
    \/ InvokeDeployment
    \/ Compile
    \/ LoopTest
    \/ ProcessNode
    \/ EndPass
    \/ ExecutorReturns

SpecDeploy == InitDeploy /\ [][NextDeploy]_vars

\* The create family: one or two saved workflows and create_deployment
\* calls, one after another.
InitCreate ==
    /\ registry = register_all_nodes
    /\ call = NoCall
    /\ workflows \in WorkflowTables({"w1"}) \cup WorkflowTables({"w1", "w2"})
    /\ deployments = <<>>
    /\ deployment_logs = <<>>
    /\ Idle

SpecCreate == InitCreate /\ [][CreateDeployment]_vars

(***************************************************************************)
(* SummaryNode._summarize_tree_structure.  The text a language model gives *)
(* back is not computed: a summary is the record of what it summarizes.    *)
(***************************************************************************)
\* _summarize_chunk: one call of the language model on a chunk
summarize_chunk(chunk) == [kind |-> "summary", of |-> <<chunk>>]

\* _combine_summaries: a single summary as it is, or one call of the language
\* model on the list
combine_summaries(summaries) ==
    IF Len(summaries) = 1 THEN summaries[1]
    ELSE [kind |-> "combined", of |-> summaries]

\* the summary of a group of the for loop
GroupSummary(group) ==
    IF Len(group) = 1 THEN summarize_chunk(group[1])
    ELSE combine_summaries([j \in 1..Len(group) |-> summarize_chunk(group[j])])

MaxChunks == 5
MaxPerLevel == 3
MaxRounds == 4

\* the head of _summarize_tree_structure: the returns for no chunk and for
\* one chunk, and the locals of the loop
SummaryStart ==
    /\ call.op = "_summarize_tree_structure" /\ call.at = "def"
    /\ call' =
         IF call.chunks = <<>>
         THEN [call EXCEPT !.at = "return",
                           !.result = [summary |-> <<>>, levels |-> 0, chunk_count |-> 0]]
         ELSE IF Len(call.chunks) = 1
         THEN [call EXCEPT !.at = "return",
                           !.result = [summary |-> summarize_chunk(call.chunks[1]),
                                       levels |-> 1, chunk_count |-> 1]]
         ELSE [call EXCEPT !.at = "while", !.current_level = call.chunks]
    /\ UNCHANGED <<registry, flow, database>>

\* "while len(current_level) > 1": a new round, or the return of the summary
\* that is left
SummaryWhile ==
    /\ call.op = "_summarize_tree_structure" /\ call.at = "while"
    /\ call.levels < MaxRounds
    /\ call' =
         IF Len(call.current_level) > 1
         THEN [call EXCEPT !.at = "for", !.levels = @ + 1, !.level_summaries = <<>>,
                           !.i = 0]
         ELSE [call EXCEPT !.at = "return",
                           !.result = [summary |-> IF call.current_level # <<>>
                                                   THEN call.current_level[1] ELSE <<>>,
                                       levels |-> call.levels,
                                       chunk_count |-> Len(call.chunks)]]
    /\ UNCHANGED <<registry, flow, database>>

\* one turn of "for i in range(0, len(current_level), max_chunks_per_level)",
\* or the end of the round: current_level = level_summaries
SummaryFor ==
    /\ call.op = "_summarize_tree_structure" /\ call.at = "for"
    /\ call' =
         IF call.i < Len(call.current_level)
         THEN LET last == IF call.i + call.max_chunks_per_level < Len(call.current_level)
                          THEN call.i + call.max_chunks_per_level
                          ELSE Len(call.current_level)
                  group == SubSeq(call.current_level, call.i + 1, last)
              IN  [call EXCEPT !.level_summaries = Append(@, GroupSummary(group)),
                               !.i = @ + call.max_chunks_per_level]
         ELSE [call EXCEPT !.at = "while", !.current_level = call.level_summaries]
    /\ UNCHANGED <<registry, flow, database>>

\* The summary family: every list of up to MaxChunks chunks and every
\* max_chunks_per_level from 1 to MaxPerLevel.
InitSummary ==
    /\ registry = register_all_nodes
    /\ \E n \in 0..MaxChunks, m \in 1..MaxPerLevel :
         call = [op |-> "_summarize_tree_structure", at |-> "def",
                 chunks |-> [j \in 1..n |-> j], max_chunks_per_level |-> m,
                 current_level |-> <<>>, level_summaries |-> <<>>, i |-> 0,
                 levels |-> 0, result |-> NoneV]
    /\ init_db
    /\ Idle

NextSummary == SummaryStart \/ SummaryWhile \/ SummaryFor

SpecSummary == InitSummary /\ [][NextSummary]_vars

(***************************************************************************)
(* Vocabulary of the properties.                                           *)
(***************************************************************************)
RolesError == "Workflow must include at least one QueryNode and one ResponseNode"
DeadlockError == "Unresolved dependencies or cyclic graph"
InternalError == "Failed to execute flow"

CompileErrors ==
    {"nodes is required and cannot be empty", RolesError,
     "Each edge must include from.node and to.node", "Edge references unknown nodes"}

\* the payload passed every check of Compile
Compiled == pc # "start" /\ status \notin CompileErrors

\* the nodes reached from S along one or more edges
RECURSIVE Downstream(_, _)
Downstream(S, fuel) ==
    LET step == {edges[i].to : i \in {j \in 1..Len(edges) : edges[j].from \in S}}
    IN  IF fuel = 0 THEN {} ELSE step \cup Downstream(step, fuel - 1)

Reaches(a, b) == b \in Downstream({a}, Cardinality(NodeIds))

Acyclic == \A nid \in NodeIds : ~Reaches(nid, nid)

\* the nodes on a cycle between two or more nodes
OnCycle == {a \in NodeIds : \E b \in NodeIds \ {a} : Reaches(a, b) /\ Reaches(b, a)}

Settled(nid) ==
    Cardinality({x \in {"executed", "skipped", "errors"} :
                    \/ x = "executed" /\ nid \in executed
                    \/ x = "skipped" /\ nid \in skipped
                    \/ x = "errors" /\ nid \in DOMAIN errors}) = 1

\* C1: a compiled acyclic payload ends in the success payload with every node
\* id in exactly one of executed, skipped and the keys of errors.
C1_EveryNodeSettled ==
    (pc = "done" /\ Compiled /\ Acyclic) =>
        (status = "success" /\ \A nid \in NodeIds : Settled(nid))

\* C2: a node with an incoming edge from a node that errored or was skipped
\* gets the "Upstream node has no results" error, leaves remaining, and the
\* call returns the success payload, not the deadlock error.
C2_UpstreamResolvedLocally ==
    (pc = "done" /\ Compiled) =>
        \A nid \in NodeIds :
            (\E src \in depends_on(nid) : src \in skipped \/ src \in DOMAIN errors) =>
                /\ nid \in DOMAIN errors
                /\ errors[nid].kind = "Upstream node has no results"
                /\ nid \notin remaining_nodes
                /\ status = "success"

\* C3: a run that raises is local: the message is in errors, the node is not
\* executed, and the call still ends in the success payload.  The same for a
\* ResponseNode: it is processed without an error leaving execute_flow.
C3_RunFailureIsLocal ==
    /\ \A nid \in ran \ executed : nid \in DOMAIN errors
    /\ (pc = "done" /\ Compiled) => status = "success"

\* C4: a compiled payload with a cycle between two or more nodes ends in the
\* deadlock error, which lists the nodes of the cycle.
C4_CycleEndsInDeadlock ==
    (pc = "done" /\ Compiled /\ OnCycle # {}) =>
        (status = DeadlockError /\ OnCycle \subseteq detail)

\* C5: for a compiled acyclic payload the loop makes at most |nodes| passes.
C5_PassesAtMostNodes ==
    (Compiled /\ Acyclic) => iterations <= Cardinality(NodeIds)

\* a call of an acyclic payload of two or more nodes that ended after as many
\* passes as it has nodes
C5_Witness ==
    /\ pc = "done" /\ Compiled /\ Acyclic
    /\ Cardinality(NodeIds) >= 2
    /\ iterations = Cardinality(NodeIds)

\* an incoming edge whose named output is absent from the results of its
\* source, or is None, "", [] or {} there
InactiveEdge(e) ==
    /\ e.output # ""
    /\ e.from \in DOMAIN results
    /\ \/ e.output \notin DOMAIN results[e.from]
       \/ LET v == results[e.from][e.output] IN
             \/ v.t = "NoneType"
             \/ v.t = "str" /\ v.s = <<>>
             \/ v.t = "list" /\ v.l = <<>>
             \/ v.t = "dict" /\ DOMAIN v.d = {}

OnlyInactiveEdges(nid) ==
    /\ incoming_by_node(nid) # <<>>
    /\ \A i \in 1..Len(incoming_by_node(nid)) : InactiveEdge(incoming_by_node(nid)[i])

\* C6: a processed node (of a type the registry resolves) whose incoming edges
\* are all inactive is in skipped, was not run and has no results, with or
\* without external inputs.
C6_InactiveNodeSkipped ==
    \A nid \in NodeIds :
        (/\ Compiled /\ nid \notin remaining_nodes
         /\ lower(TypeOf(nodes_cfg[nid])) \in RegisteredNodes
         /\ OnlyInactiveEdges(nid)) =>
            (nid \in skipped /\ nid \notin ran /\ nid \notin DOMAIN results)

NoQueryType ==
    \A nid \in NodeIds :
        lower(IF nodes_cfg[nid].type # <<>> THEN nodes_cfg[nid].type ELSE nodes_cfg[nid].name)
            # <<"q","u","e","r","y","n","o","d","e">>

\* C10: a non-empty payload without a node of the query type (its "type", or
\* its "name" when it has no type, in any case) ends in the role error, which
\* reports the query role as missing and echoes the types received.
C10_NoQueryRoleError ==
    (pc # "start" /\ NodeIds # {} /\ NoQueryType) =>
        /\ pc = "done"
        /\ status = RolesError
        /\ detail.has_query_node = FALSE
        /\ DOMAIN detail.received_types = NodeIds
        /\ \A nid \in NodeIds : detail.received_types[nid] # querynode
        /\ ran = {} /\ executed = {}

\* the role error for a payload that has a response node, no query node, and
\* an edge to an undeclared node
C10_Witness ==
    /\ status = RolesError
    /\ NoQueryType
    /\ \E nid \in NodeIds : lower(nodes_cfg[nid].type) = responsenode
    /\ \E i \in 1..Len(edges) : edges[i].to = "ghost"
    /\ external_inputs # EmptyDict

\* the other edges of the edge list, in their order
WithoutEdge(i) == SubSeq(edges, 1, i - 1) \o SubSeq(edges, i + 1, Len(edges))

\* an edge that names an output whose value is None, "", [] or {}
EmptyValuedEdge(e) ==
    /\ e.output # ""
    /\ e.from \in DOMAIN results
    /\ e.output \in DOMAIN results[e.from]
    /\ LET v == results[e.from][e.output] IN
          \/ v.t = "NoneType"
          \/ v.t = "str" /\ v.s = <<>>
          \/ v.t = "list" /\ v.l = <<>>
          \/ v.t = "dict" /\ DOMAIN v.d = {}

\* C7: an edge whose named output is None, "", [] or {} contributes nothing:
\* the built inputs of the target are those of the edge list without it.
C7_InactiveEdgeInvisible ==
    pc = "routed" =>
        \A i \in 1..Len(edges) :
            EmptyValuedEdge(edges[i]) =>
                built["t"] = BuildInputs(IF "t" \in DOMAIN external_inputs
                                         THEN external_inputs["t"] ELSE EmptyDict,
                                         WithoutEdge(i), results).inputs

\* an empty-valued edge and an edge with text on the same input: the input is
\* that text, not a combination
C7_Witness ==
    /\ pc = "routed"
    /\ \E i, j \in 1..Len(edges) :
          /\ EmptyValuedEdge(edges[i])
          /\ edges[i].input = "x" /\ edges[j].input = "x"
          /\ edges[j].output = "out"
          /\ results[edges[j].from]["out"] = Str(<<"a">>)
    /\ built["t"]["x"] = Str(<<"a">>)

\* the named output of a node carries a value: it is present and not empty
ActiveOutput(nid, output) ==
    /\ nid \in DOMAIN results
    /\ output \in DOMAIN results[nid]
    /\ ~IsInactiveValue(results[nid][output])

\* C8: in the conditional scenario, once c has run exactly one of c.true and
\* c.false is active, and r receives as input_data the pass-through value of
\* that branch, the query stripped.
C8_ExactlyOneBranch ==
    /\ "c" \in executed => (ActiveOutput("c", "true") # ActiveOutput("c", "false"))
    /\ ("c" \in executed /\ pc = "done") =>
          /\ "r" \in DOMAIN built
          /\ "input_data" \in DOMAIN built["r"]
          /\ built["r"]["input_data"] = Str(strip(nodes_cfg["q"].parameters["query"].s))

\* C9: the output of ConditionalNode.run has the keys true, false and
\* condition; the fired branch is the left value, the other the empty text.
C9_BothBranchKeys ==
    "c" \in executed =>
        LET out == results["c"] IN
        /\ DOMAIN out = {"true", "false", "condition"}
        /\ out["condition"].b => (out["true"] = built["c"]["left"] /\ out["false"] = Str(<<>>))
        /\ ~out["condition"].b => (out["true"] = Str(<<>>) /\ out["false"] = built["c"]["left"])

NoResponseType ==
    \A nid \in NodeIds :
        lower(IF nodes_cfg[nid].type # <<>> THEN nodes_cfg[nid].type ELSE nodes_cfg[nid].name)
            # <<"r","e","s","p","o","n","s","e","n","o","d","e">>

\* an edge without from.node or to.node, or naming an undeclared node id
BadEdge(e) == e.from = "" \/ e.to = "" \/ e.from \notin NodeIds \/ e.to \notin NodeIds

Malformed ==
    \/ NodeIds = {}
    \/ NoQueryType
    \/ NoResponseType
    \/ \E i \in 1..Len(edges) : BadEdge(edges[i])

\* C11: a call with a malformed payload (no nodes, a missing query or response
\* role, a bad edge anywhere in the edge list) ends with the error of the
\* first failed check, before the first pass: no node was instantiated or run.
C11_CompileBeforeRun ==
    (pc # "start" /\ Malformed) =>
        /\ pc = "done"
        /\ status \in CompileErrors
        /\ NodeIds = {} => status = "nodes is required and cannot be empty"
        /\ (NodeIds # {} /\ (NoQueryType \/ NoResponseType)) => status = RolesError
        /\ (NodeIds # {} /\ ~NoQueryType /\ ~NoResponseType) =>
              /\ BadEdge(detail)
              /\ \E i \in 1..Len(edges) :
                    /\ edges[i] = detail
                    /\ \A j \in 1..(i - 1) : ~BadEdge(edges[j])
              /\ status = IF detail.from = "" \/ detail.to = ""
                          THEN "Each edge must include from.node and to.node"
                          ELSE "Edge references unknown nodes"
        /\ iterations = 0
        /\ instantiated = {} /\ ran = {}
        /\ executed = {} /\ skipped = {}
        /\ errors = EmptyDict /\ results = EmptyDict

\* the unknown-node error for a payload with both roles whose first edge is
\* sound and whose second edge names an undeclared node
C11_Witness ==
    /\ pc = "done"
    /\ status = "Edge references unknown nodes"
    /\ Len(edges) = 2
    /\ ~BadEdge(edges[1])
    /\ edges[2].to = "ghost"
    /\ instantiated = {}

\* scenario A: q is a QueryNode with parameters.query = "hi", r a ResponseNode,
\* and the single edge is q.query -> r.input_data
ScenarioA ==
    /\ nodes_cfg = ("q" :> NodeSpec(QueryNodeName, <<>>, "query" :> Str(<<"h", "i">>))) @@
                   ("r" :> NodeSpec(ResponseNodeName, <<>>, EmptyDict))
    /\ edges = << Edge("q", "query", "r", "input_data") >>
    /\ external_inputs = EmptyDict

\* C12: scenario A ends in the success payload with response_inputs.r equal to
\* {input_data: "hi", final_response: "hi"}, executed = {q, r}, and nothing
\* skipped or in errors.
C12_ScenarioA ==
    (ScenarioA /\ pc = "done") =>
        /\ status = "success"
        /\ response_node_inputs =
              ("r" :> (("input_data" :> Str(<<"h", "i">>)) @@
                       ("final_response" :> Str(<<"h", "i">>))))
        /\ executed = {"q", "r"}
        /\ skipped = {}
        /\ errors = EmptyDict

\* the edges i and j, i listed before j, are the only two edges on one input
\* of t, and come from two upstream nodes by named outputs that are strings
TwoStringEdges(i, j) ==
    /\ i < j
    /\ edges[i].from # edges[j].from
    /\ InputKey(edges[i]) = InputKey(edges[j])
    /\ \A k \in 1..Len(edges) : InputKey(edges[k]) = InputKey(edges[i]) => k \in {i, j}
    /\ \A k \in {i, j} :
          /\ edges[k].output # ""
          /\ edges[k].output \in DOMAIN results[edges[k].from]
          /\ results[edges[k].from][edges[k].output].t = "str"

EdgeText(k) == results[edges[k].from][edges[k].output].s

CombinedText(a, b) ==
    Str(<<"C","o","m","b","i","n","e","d"," ","i","n","p","u","t","s",":">> \o <<"\n">> \o
        a \o <<"\n", "\n">> \o b)

\* C13 as stated: two edges on one input from two upstream nodes whose named
\* outputs are the non-empty strings a (listed first) and b give the input
\* "Combined inputs:" + newline + a + two newlines + b.
C13_CombinedInEdgeOrder ==
    pc = "routed" =>
        \A i, j \in 1..Len(edges) :
            (TwoStringEdges(i, j) /\ EdgeText(i) # <<>> /\ EdgeText(j) # <<>>) =>
                built["t"][InputKey(edges[i])] = CombinedText(EdgeText(i), EdgeText(j))

\* C13 amended: the same for strings a and b that each hold a character
\* other than white space.
C13_CombinedInEdgeOrder_NonBlank ==
    pc = "routed" =>
        \A i, j \in 1..Len(edges) :
            (TwoStringEdges(i, j) /\ strip(EdgeText(i)) # <<>> /\ strip(EdgeText(j)) # <<>>) =>
                built["t"][InputKey(edges[i])] = CombinedText(EdgeText(i), EdgeText(j))

\* the edge from s2 is listed before the edge from s1, and the input holds the
\* text of s2 before the text of s1
C13_Witness ==
    /\ pc = "routed"
    /\ Len(edges) = 2
    /\ TwoStringEdges(1, 2)
    /\ edges[1].from = "s2" /\ edges[2].from = "s1"
    /\ EdgeText(1) = <<"b">> /\ EdgeText(2) = <<"a">>
    /\ built["t"][InputKey(edges[1])] = CombinedText(<<"b">>, <<"a">>)

\* C15: in every state of a call the keys of results are the executed nodes:
\* only a node whose run returned has results, never a skipped or errored one.
C15_ResultsIffExecuted ==
    /\ DOMAIN results = executed
    /\ executed \subseteq ran
    /\ \A nid \in skipped \cup DOMAIN errors : nid \notin DOMAIN results

\* a call in which one node has run and has results, and a node downstream of
\* it was skipped and has none
C15_Witness ==
    \E a, b \in NodeIds :
        /\ a \in executed /\ a \in DOMAIN results
        /\ b \in skipped /\ b \notin DOMAIN results
        /\ a \in depends_on(b)

\* C16: executed, skipped and the keys of errors are pairwise disjoint in every
\* state; they hold exactly the nodes that left remaining, and so all the
\* nodes in a success payload.
C16_SetsDisjoint ==
    /\ executed \cap skipped = {}
    /\ executed \cap DOMAIN errors = {}
    /\ skipped \cap DOMAIN errors = {}
    /\ pc # "start" => executed \cup skipped \cup DOMAIN errors = NodeIds \ remaining_nodes
    /\ status = "success" => executed \cup skipped \cup DOMAIN errors = NodeIds

\* a call in which one node was executed and another, whose run raised, is in
\* errors
C16_Witness ==
    /\ executed # {}
    /\ \E nid \in ran : nid \in DOMAIN errors /\ errors[nid].kind = "exception"

\* the type name of the node is not a key of the registry in any case
Unresolvable(nid) ==
    /\ TypeOf(nodes_cfg[nid]) # <<>>
    /\ \A key \in DOMAIN registry : lower(TypeOf(nodes_cfg[nid])) # key

\* C17: processing a ready node whose type the registry does not resolve is
\* local: run is not called, errors records the unknown type, the node leaves
\* remaining and counts as progress, is neither executed nor skipped, and the
\* pass goes on with the other ready nodes.  Such a node is never run.
C17_UnknownTypeLocal ==
    /\ [](\A nid \in NodeIds : Unresolvable(nid) => nid \notin ran \cup executed \cup skipped)
    /\ [][\A nid \in NodeIds :
            (pc = "pass" /\ nid \in ready_nodes /\ nid \notin ready_nodes' /\ Unresolvable(nid)) =>
                /\ nid \in DOMAIN errors'
                /\ errors'[nid] = Err("Unknown node type", TypeOf(nodes_cfg[nid]), "", "")
                /\ remaining_nodes' = remaining_nodes \ {nid}
                /\ progressed'
                /\ ran' = ran /\ executed' = executed /\ skipped' = skipped
                /\ results' = results
                /\ ready_nodes' = ready_nodes \ {nid}
                /\ pc' = "pass" /\ status' = "running"]_vars

\* in the first pass a node of an unknown type has been put in errors while
\* other ready nodes of the pass are still to be processed
C17_Witness ==
    /\ pc = "pass" /\ iterations = 1
    /\ ready_nodes # {}
    /\ \E nid \in NodeIds :
          /\ Unresolvable(nid)
          /\ nid \in DOMAIN errors /\ errors[nid].kind = "Unknown node type"
          /\ nid \notin remaining_nodes

\* C18: create_node called with any upper/lower-case variant of a name under
\* which a class is registered (its default key or an explicit name) returns
\* an instance of that class.
C18_LookupCaseInsensitive ==
    call.op = "create_node" =>
        \A key \in DOMAIN registry :
            lower(call.name) = lower(key) =>
                call.result = [kind |-> "instance", cls |-> registry[key]]

\* C19: create_node never raises: it returns an instance for a registered
\* name, each of the eight types of register_all_nodes included, and None
\* for a name that is not registered.
C19_CreateNodeNeverRaises ==
    call.op = "create_node" =>
        /\ call.result.kind # "raise"
        /\ (\E key \in DOMAIN registry : key = lower(call.name)) =>
              call.result.kind = "instance"
        /\ (\A key \in DOMAIN registry : key # lower(call.name)) =>
              call.result.kind = "none"

\* the names declared required that are not keys of the given map
MissingRequired(declared, given) ==
    {declared[i].name : i \in {j \in 1..Len(declared) :
                                 declared[j].required /\ declared[j].name \notin DOMAIN given}}

\* C20: run fails with an error naming a missing field, without calling
\* execute, when a declared required input or parameter is not a key of the
\* map given; otherwise its outcome is that of execute.  A missing optional
\* input or parameter never fails the validation.
C20_RunValidates ==
    call.op = "run" =>
        LET missing_inputs == MissingRequired(DeclaredInputs(call.cls), call.inputs)
            missing_parameters == MissingRequired(DeclaredParameters(call.cls), call.parameters)
        IN  IF missing_inputs # {}
            THEN /\ ~call.result.ok
                 /\ \E name \in missing_inputs :
                       call.result.msg = "Required input '" \o name \o "' is missing"
            ELSE IF missing_parameters # {}
            THEN /\ ~call.result.ok
                 /\ \E name \in missing_parameters :
                       call.result.msg = "Required parameter '" \o name \o "' is missing"
            ELSE call.result = execute(call.cls, call.inputs, call.parameters)

\* run of a ConditionalNode given its required input and parameter and none
\* of its optional ones: execute was called and returned
C20_Witness ==
    /\ call.op = "run"
    /\ call.cls = conditionalnode
    /\ DOMAIN call.inputs = {"left"}
    /\ DOMAIN call.parameters = {"operator"}
    /\ call.result.ok
    /\ "condition" \in DOMAIN call.result.out

\* one pass over the nodes of ready taken in one fixed order, from the
\* execution state st
RECURSIVE FixedOrderPass(_, _)
FixedOrderPass(ready, st) ==
    IF ready = {} THEN st
    ELSE LET node_id == CHOOSE nid \in ready : TRUE
             o == LoopBodyOutcome(node_id, st)
         IN  IF o.raised
             THEN [st EXCEPT !.status = InternalError, !.detail = o.message]
             ELSE FixedOrderPass(ready \ {node_id},
                    [st EXCEPT !.errors = o.errors, !.skipped = o.skipped,
                               !.results = o.results, !.executed = o.executed,
                               !.response = o.response,
                               !.remaining = IF o.removed THEN st.remaining \ {node_id}
                                             ELSE st.remaining,
                               !.progressed = st.progressed \/ o.removed])

\* the execution loop with the ready nodes of every pass taken in that order
RECURSIVE FixedOrderFlow(_, _)
FixedOrderFlow(st, passes) ==
    IF st.remaining = {} \/ passes >= max_iterations
    THEN [st EXCEPT !.status = "success"]
    ELSE LET after == FixedOrderPass(ReadyNodes(st.remaining, st.executed),
                                     [st EXCEPT !.progressed = FALSE])
         IN  IF after.status = InternalError THEN after
             ELSE IF ~after.progressed
             THEN [after EXCEPT !.status = DeadlockError, !.detail = after.remaining]
             ELSE FixedOrderFlow(after, passes + 1)

\* what the caller gets: the success payload, or the error raised
Outcome(st) ==
    IF st.status = "success"
    THEN <<"success", st.response, st.executed, st.skipped, st.errors>>
    ELSE <<st.status, st.detail>>

\* C21: the outcome of a call (the success payload, or the fatal error and
\* its detail) is the same for every order in which the ready nodes of a
\* pass are processed: it is the outcome of processing them in one fixed order.
C21_OutcomeIndependentOfOrder ==
    (pc = "done" /\ Compiled) =>
        Outcome([status |-> status, detail |-> detail, response |-> response_node_inputs,
                 executed |-> executed, skipped |-> skipped, errors |-> errors])
        = Outcome(FixedOrderFlow([status |-> "running", detail |-> <<>>,
                                   errors |-> EmptyDict, skipped |-> {},
                                   results |-> EmptyDict, executed |-> {},
                                   response |-> EmptyDict, remaining |-> NodeIds,
                                   progressed |-> FALSE], 0))

\* a call that ended after a first pass in which two or more nodes were
\* processed, in one of several possible orders
C21_Witness ==
    /\ pc = "done" /\ Compiled
    /\ status = DeadlockError
    /\ iterations = 2
    /\ Cardinality(NodeIds \ remaining_nodes) >= 2

\* the call of combine_multiple_inputs has returned, and its values were
\* all strings
CombinedStrings ==
    /\ call.op = "combine_multiple_inputs"
    /\ \A i \in 1..Len(call.values) : call.values[i].t = "str"

\* the text has a character that is not white space
HasContent(text) == \E i \in 1..Len(text) : text[i] \notin {" ", "\t", "\n", "\r"}

\* the non-empty values of the call, in their order
NonEmptyTexts ==
    LET kept == SelectSeq(call.values, LAMBDA v : v.s # <<>>)
    IN  [i \in 1..Len(kept) |-> kept[i].s]

\* the texts joined by two newlines
RECURSIVE JoinedTexts(_)
JoinedTexts(texts) ==
    IF Len(texts) = 1 THEN texts[1]
    ELSE texts[1] \o <<"\n", "\n">> \o JoinedTexts(Tail(texts))

PrefixedJoin(texts) ==
    Str(<<"C","o","m","b","i","n","e","d"," ","i","n","p","u","t","s",":">> \o <<"\n">> \o
        JoinedTexts(texts))

\* the first text of the list that no other text is longer than
FirstLongest(texts) ==
    texts[CHOOSE i \in 1..Len(texts) :
             /\ \A j \in 1..Len(texts) : Len(texts[j]) <= Len(texts[i])
             /\ \A j \in 1..(i - 1) : Len(texts[j]) < Len(texts[i])]

\* C22 as stated: two non-empty strings a and b give "Combined inputs:" +
\* newline + a + two newlines + b, and one empty with one non-empty string, in
\* either order, give the non-empty string unchanged.
C22_CombineTwoStrings ==
    (CombinedStrings /\ Len(call.values) = 2) =>
        LET a == call.values[1].s
            b == call.values[2].s
        IN  /\ (a # <<>> /\ b # <<>>) => call.result = CombinedText(a, b)
            /\ (a = <<>> /\ b # <<>>) => call.result = Str(b)
            /\ (a # <<>> /\ b = <<>>) => call.result = Str(a)

\* C22 amended: the combination is returned for two strings that each hold a
\* character other than white space; if one of two non-empty strings is white
\* space only, the longer is returned, the first on a tie.
C22_CombineTwoStrings_NonBlank ==
    (CombinedStrings /\ Len(call.values) = 2) =>
        LET a == call.values[1].s
            b == call.values[2].s
        IN  /\ (HasContent(a) /\ HasContent(b)) => call.result = CombinedText(a, b)
            /\ (a # <<>> /\ b # <<>> /\ ~(HasContent(a) /\ HasContent(b))) =>
                  call.result = Str(IF Len(b) > Len(a) THEN b ELSE a)
            /\ (a = <<>> /\ b # <<>>) => call.result = Str(b)
            /\ (a # <<>> /\ b = <<>>) => call.result = Str(a)

\* two strings with content and blanks at their ends, combined as they are
C22_Witness ==
    /\ CombinedStrings
    /\ call.values = << Str(<<"a", " ">>), Str(<<" ", "a">>) >>
    /\ call.result = CombinedText(<<"a", " ">>, <<" ", "a">>)

\* two or more strings, some empty and some not
SomeEmptySomeNot ==
    /\ CombinedStrings
    /\ Len(call.values) >= 2
    /\ \E i \in 1..Len(call.values) : call.values[i].s = <<>>
    /\ \E i \in 1..Len(call.values) : call.values[i].s # <<>>

\* C23 as stated: on two or more strings, some empty and the others not, the
\* result is the longest non-empty string, also when several are non-empty.
C23_LongestWhenSomeEmpty ==
    SomeEmptySomeNot =>
        /\ call.result.t = "str"
        /\ \E i \in 1..Len(NonEmptyTexts) : call.result.s = NonEmptyTexts[i]
        /\ \A i \in 1..Len(NonEmptyTexts) : Len(NonEmptyTexts[i]) <= Len(call.result.s)

\* C23 amended: the empty strings are dropped; a single non-empty string is
\* returned as it is; several non-empty strings that all have content are
\* joined behind "Combined inputs:"; otherwise the first of the longest
\* non-empty strings is returned.
C23_LongestWhenSomeBlank ==
    SomeEmptySomeNot =>
        call.result =
            IF Len(NonEmptyTexts) = 1 THEN Str(NonEmptyTexts[1])
            ELSE IF \A i \in 1..Len(NonEmptyTexts) : HasContent(NonEmptyTexts[i])
            THEN PrefixedJoin(NonEmptyTexts)
            ELSE Str(FirstLongest(NonEmptyTexts))

\* an empty string, a string of content and a string of blanks as long: the
\* first of the two longest is returned
C23_Witness ==
    /\ SomeEmptySomeNot
    /\ call.values = << Str(<<>>), Str(<<"a", "a">>), Str(<<" ", " ">>) >>
    /\ call.result = Str(<<"a", "a">>)

\* C24: run is called only on a node of the pass under way, and every node of
\* a pass had all the nodes it has an incoming edge from in executed when the
\* pass began: no node runs before, or in the same pass as, a node upstream
\* of it, and a node with an upstream node not in executed is never run.
C24_RunAfterUpstream ==
    /\ [](\A nid \in ran : depends_on(nid) \subseteq executed)
    /\ [][/\ (pc = "loop" /\ pc' = "pass") =>
               /\ executed' = executed
               /\ \A nid \in ready_nodes' : depends_on(nid) \subseteq executed
           /\ (pc = "pass" => ready_nodes' \subseteq ready_nodes)
           /\ \A nid \in ran' \ ran : pc = "pass" /\ nid \in ready_nodes]_vars

\* a node with an upstream node has run, in a pass after the first
C24_Witness ==
    /\ iterations >= 2
    /\ \E nid \in ran : depends_on(nid) # {} /\ nid \in executed

C26_ProcessedOnce ==
    [][\A nid \in NodeIds :
          /\ (pc = "pass" /\ nid \in ready_nodes \ ready_nodes') =>
                /\ nid \in remaining_nodes
                /\ nid \notin ran
                /\ nid \notin executed \cup skipped \cup DOMAIN errors
          /\ (pc # "start" /\ nid \notin remaining_nodes) =>
                /\ nid \notin remaining_nodes'
                /\ nid \notin ready_nodes'
                /\ (nid \in ran) = (nid \in ran')
                /\ (nid \in executed) = (nid \in executed')
                /\ (nid \in skipped) = (nid \in skipped')
                /\ (nid \in DOMAIN errors) = (nid \in DOMAIN errors')
                /\ (nid \in DOMAIN errors => errors'[nid] = errors[nid])
                /\ (nid \in DOMAIN results => results'[nid] = results[nid])]_vars

\* a later pass under way with a ready node, after a node has run and left
\* remaining in an earlier pass
C26_Witness ==
    /\ pc = "pass" /\ iterations >= 2
    /\ ready_nodes # {}
    /\ \E nid \in ran : nid \notin remaining_nodes /\ nid \notin ready_nodes

\* a call of invoke_deployment is in the executor
Invoking == call.op = "invoke_deployment" /\ call.phase = "executing"

\* C27: a call of invoke_deployment that reaches the executor calls
\* log_deployment_invocation exactly once, when the executor has finished,
\* with status "success" exactly if the executor returned and "error" exactly
\* if it raised; whether or not the row gets written, the caller gets the
\* result or the exception of the executor; nothing is written while the
\* executor runs, nor by a call rejected as not found or inactive.
C27_OneLogAfterExecutor ==
    /\ [](call.op = "invoke_deployment" =>
            /\ (call.phase \in {"executing", "rejected"} => call.log_calls = <<>>)
            /\ (call.phase = "rejected" =>
                   /\ ~call.result.ok
                   /\ \/ call.deployment_id \notin DOMAIN deployments
                      \/ deployments[call.deployment_id].is_active # 1)
            /\ (call.phase = "done" =>
                   /\ Len(call.log_calls) = 1
                   /\ call.log_calls[1].deployment_id = call.deployment_id
                   /\ call.log_calls[1].status \in {"success", "error"}
                   /\ (call.log_calls[1].status = "success") = call.result.ok))
    /\ [][/\ (call'.op = "invoke_deployment" /\ call'.phase \in {"executing", "rejected"}) =>
              deployment_logs' = deployment_logs
          /\ (Invoking /\ call'.phase = "done") =>
              /\ pc = "done"
              /\ call'.result.ok = (status = "success")
              /\ call'.result = ExecutorOutcome
              /\ deployment_logs' \in {deployment_logs,
                                       Append(deployment_logs, call'.log_calls[1])}]_vars

\* an invocation is over whose executor raised and whose log row was not
\* written: the caller has the exception of the executor
C27_Witness ==
    /\ call.op = "invoke_deployment" /\ call.phase = "done"
    /\ call.log_calls[1].status = "error"
    /\ ~call.result.ok
    /\ deployment_logs = <<>>

\* C28: while an invocation runs, the nodes it runs are those of the stored
\* row, with parameters.query of every QueryNode replaced by a non-empty
\* query of the call and nothing else changed; the stored row is what
\* create_deployment compiled and no step of an invocation changes it, so an
\* invocation without a query runs with the deployed query.
C28_QueryOverrideIsLocal ==
    /\ [](Invoking =>
            LET row == deployments[call.deployment_id]
                stored == row.data
                replaced == call.query.t = "str" /\ call.query.s # <<>>
            IN  /\ stored = compile_workflow(workflows[row.workflow_id].data)
                /\ edges = stored.edges
                /\ DOMAIN nodes_cfg = DOMAIN stored.nodes
                /\ \A nid \in DOMAIN stored.nodes :
                      IF replaced /\ lower(stored.nodes[nid].type) = querynode
                      THEN /\ nodes_cfg[nid].type = stored.nodes[nid].type
                           /\ nodes_cfg[nid].parameters =
                                 Put(stored.nodes[nid].parameters, "query", call.query)
                      ELSE nodes_cfg[nid] = stored.nodes[nid])
    /\ [][call'.op = "invoke_deployment" => deployments' = deployments]_vars

\* an invocation without a query has run a query node with the deployed
\* query, after an invocation of the same deployment with a query
C28_Witness ==
    /\ Invoking
    /\ call.query = NoneV
    /\ \E i \in 1..Len(deployment_logs) :
          /\ deployment_logs[i].deployment_id = call.deployment_id
          /\ deployment_logs[i].request.query = Str(Yo)
    /\ "q" \in executed
    /\ results["q"]["query"] = Str(strip(Hi))

\* the rows of the deployments table for a workflow
RowsOf(workflow_id) ==
    {id \in DOMAIN deployments : deployments[id].workflow_id = workflow_id}

\* C29: create_deployment calls made one after another leave at most one row
\* per workflow_id: the call for a workflow without a row inserts one and
\* returns its id with updated false, every later call for the workflow
\* changes the name and the data of that row, returns its id with updated
\* true, and adds no row.
C29_OneRowPerWorkflow ==
    /\ [](\A w \in DOMAIN workflows : Cardinality(RowsOf(w)) <= 1)
    /\ [][(call'.op = "create_deployment" /\ call'.workflow_id \in DOMAIN workflows) =>
            LET w == call'.workflow_id
                out == call'.result
            IN  /\ out.ok
                /\ \A id \in DOMAIN deployments :
                      /\ id \in DOMAIN deployments'
                      /\ id # out.data.id => deployments'[id] = deployments[id]
                /\ IF RowsOf(w) = {}
                   THEN /\ ~out.data.updated
                        /\ out.data.id \notin DOMAIN deployments
                        /\ DOMAIN deployments' = DOMAIN deployments \cup {out.data.id}
                        /\ deployments'[out.data.id].workflow_id = w
                   ELSE /\ out.data.updated
                        /\ RowsOf(w) = {out.data.id}
                        /\ DOMAIN deployments' = DOMAIN deployments
                        /\ deployments'[out.data.id] =
                              [deployments[out.data.id] EXCEPT
                                  !.name = deployments'[out.data.id].name,
                                  !.data = compile_workflow(workflows[w].data)]]_vars

\* two workflows have a row each, and the last call updated the row of its
\* workflow
C29_Witness ==
    /\ call.op = "create_deployment"
    /\ call.result.ok /\ call.result.data.updated
    /\ Cardinality(DOMAIN deployments) = 2
    /\ deployments[call.result.data.id].workflow_id = call.workflow_id

\* C30: every round of the while loop of _summarize_tree_structure ends with
\* strictly fewer summaries than it began with, so that a call with n chunks
\* makes fewer than n rounds (none for n <= 1) before one summary is left.
C30_EachRoundFewer ==
    /\ [](call.op = "_summarize_tree_structure" =>
            /\ call.levels <= Len(call.chunks)
            /\ (call.levels > 0 => call.levels < Len(call.chunks)))
    /\ [][(call.op = "_summarize_tree_structure" /\ call.at = "for" /\ call'.at = "while") =>
            Len(call'.current_level) < Len(call.current_level)]_vars

====
